---- MODULE Spec2Model ----
(***************************************************************************)
(* Model of the GPU sweep kernels of Legion-SNAP (gpu_sweep.cu): the       *)
(* scratch-slot pool (available_chunks), the cell loops with the scratch   *)
(* pencil and plane, the CTA-wide reductions and the atomicAdd retry loop. *)
(* Flux values of the sweep part are symbolic: a value is the record       *)
(* naming the invocation, axis, cell and angle that produced it.           *)
(***************************************************************************)
EXTENDS Integers, Sequences, FiniteSets, TLC

\* ------------------------------------------------------------------ bounds
\* Number of scratch slots (MAX_CTA is 32 in the source; scaled down).
MAX_CTA == 2
\* Largest blockDim.x (lanes of a compute unit) of the pool model.
MaxLanes == 2
\* Largest chunk extent on each axis.
MaxRange == 2
\* Number of compute units that add to the same flux cell at the same time.
NumAdders == 3
\* log2 of the lanes of a warp (5 in hardware: __shfl_xor width 32, the
\* trampolines have 32 entries); a CTA has at most as many warps as a warp
\* has lanes (1024 = 32 * 32 threads).
LogWarp == 1
\* Largest num_moments of the reduction model (at most 4 in device_ec).
MaxMoments == 2
\* Fixup iterations after which the reduction model stops a warp.
MaxIter == 2
\* Cells one invocation of the reduction model processes.
CtaCells == 2
\* Passes of the fixup loop after which the fixup model stops a warp.
MaxPasses == 8
\* MAX_ANGLES, MAX_X_CHUNK and MAX_Y_CHUNK of the model, and the octants
\* device_ec has room for.
MAX_ANGLES == 3
MAX_X_CHUNK == 2
MAX_Y_CHUNK == 2
NumOctants == 2
\* The largest num_angles run_gpu_sweep is called with.
MaxNumAngles == 3073
\* max_threads_per_cta of run_gpu_sweep.
max_threads_per_cta == 1024

\* Sweep invocations (compute units) of one run: one more than there are slots.
NumUnits == MAX_CTA + 1
\* The %smid values of the model: one below MAX_CTA, one above it.
SMs == {0, MAX_CTA + 1}

Units == 1 .. NumUnits
Slots == 0 .. (MAX_CTA - 1)
Axes == {"x", "y", "z"}
Origin == <<0, 0, 0>>

VARIABLES
  blockDim,          \* blockDim.x of the run: num_angles / angles_per_thread
  available_chunks,  \* [Slots -> unsigned]
  upc,               \* unit -> "idle" | "scan" | "run" | "release" | "done"
  cfg,               \* unit -> launch parameters of its invocation
  smid,              \* unit -> %smid read by the acquiring lane
  scan,              \* unit -> i of the acquisition for loop
  spun,              \* unit -> a whole pass of the for loop found no slot while
                     \* more than MAX_CTA invocations were in flight
  cta_chunk,         \* unit -> slot index read from int_trampoline (-1: none)
  released,          \* unit -> number of lanes that executed the atomicInc
  probes,            \* unit -> offsets of the atomicDec calls of the current (or
                     \* last) pass of its acquisition through the for loop, as
                     \* long as the acquisition has not found a slot
  pos,               \* unit -> <<x, y, z>> loop counters
  psii,              \* unit -> angle -> x edge flux carried in registers
  yflux_pencils,     \* <<slot, x, angle>> -> value
  zflux_planes,      \* <<slot, y, x, angle>> -> value
  ghost,             \* <<unit, "in" | "out", axis, point, angle>> -> value stored
                     \* by a kernel into a ghost buffer of that invocation
  incoming,          \* unit -> incoming edge fluxes used by the last cell
  flux,              \* point -> what the sweep has added to the scalar flux there
  trail,             \* unit -> sequence of grid points processed so far
  time_flux,         \* <<unit, "in" | "out", point, angle>> -> number of accesses
                     \* of a kernel to the time flux fields of that invocation
  scratch_log,       \* unit -> the <<buffer, "read" | "write", entry>> accesses of
                     \* its running kernel to yflux_pencils and zflux_planes
  flux_init,         \* value of the flux cell before any atomicAdd
  flux_cell,         \* *ptr: the flux (or moment) cell the adders share
  apc,               \* adder -> "read" | "cas" | "done"
  a_value,           \* adder -> value
  a_old,             \* adder -> old
  a_fails,           \* adder -> number of its compare-and-swaps that failed
  kernel,            \* parameters of the kernel of the reduction model
  rpc,               \* warp -> position in the kernel
  rcell,             \* warp -> index of the cell it is processing
  rl,                \* warp -> l of the moment loop
  iter,              \* warp -> iterations of the fixup loop of this cell begun
  negative_fluxes,   \* thread -> negative_fluxes
  old_negative_fluxes, \* thread -> old_negative_fluxes
  nf_of,             \* warp -> iteration whose reduced count its lanes hold (0: none)
  counted,           \* <<cell, iteration, thread>> -> count of the thread itself
  total,             \* thread -> total
  int_trampoline,    \* __shared__ int int_trampoline[32]
  lane_chunk,        \* warp -> const int cta_chunk of its lanes (-1: not set)
  double_trampoline, \* __shared__ double double_trampoline[32]
  flux_sum,          \* cell -> sum of the values added to the scalar flux
  flux_adds,         \* cell -> number of atomicAdd calls on the scalar flux
  fluxm_sum,         \* <<cell, l>> -> sum of the values added to moment l
  fluxm_adds,        \* <<cell, l>> -> number of atomicAdd calls on moment l
  cell,              \* t_xs and vdelt of the cell of the fixup model
  profile,           \* thread -> source, incoming fluxes and dinv of its angle
  pc,                \* thread -> pc[0] as <<numerator, denominator>>
  hv,                \* thread -> <<hv_x, hv_y, hv_z, hv_t>>
  stored,            \* thread -> the outgoing fluxes it stored for the cell
  host_pc,           \* position of the host in initialize_gpu_context or run_gpu_sweep
  args,              \* arguments of the host call
  angles_per_thread, \* run_gpu_sweep: angles_per_thread
  threads_per_cta,   \* run_gpu_sweep: threads_per_cta
  launches,          \* the kernel launches run_gpu_sweep has made
  device_tables      \* device_ec, device_mu, device_eta, device_xi, device_w

poolVars ==
  <<blockDim, available_chunks, upc, cfg, smid, scan, spun, cta_chunk, released, probes>>
sweepVars ==
  <<pos, psii, yflux_pencils, zflux_planes, ghost, incoming, flux, trail, time_flux,
    scratch_log>>
addVars == <<flux_init, flux_cell, apc, a_value, a_old, a_fails>>
fixupVars == <<cell, profile, pc, hv, stored>>
ctaVars ==
  <<kernel, rpc, rcell, rl, iter, negative_fluxes, old_negative_fluxes, nf_of, counted,
    total, int_trampoline, double_trampoline, flux_sum, flux_adds, fluxm_sum, fluxm_adds,
    lane_chunk, fixupVars>>
hostVars == <<host_pc, args, angles_per_thread, threads_per_cta, launches, device_tables>>
vars == <<poolVars, sweepVars, addVars, ctaVars, hostVars>>

\* ------------------------------------------------------- CUDA atomics used
\* New value stored by atomicDec(addr, val); the call returns the old value.
AtomicDec(old, val) == IF old = 0 \/ old > val THEN val ELSE old - 1

\* New value stored by atomicInc(addr, val); the call returns the old value.
AtomicInc(old, val) == IF old >= val THEN 0 ELSE old + 1

\* (mutation of AcquireHit: the slot is taken whatever atomicDec returned)
AcquireHitAny(old) == old >= 0

\* The test of the acquisition loop on the value atomicDec returned.
AcquireHit(old) == old = 1

\* ------------------------------------------------------------ symbolic flux
NoValue == [kind |-> "none", unit |-> 0, axis |-> "-", pt |-> Origin, ang |-> 0]

GhostIn(u, axis, ghost_point, a) ==
  [kind |-> "ghost", unit |-> u, axis |-> axis, pt |-> ghost_point, ang |-> a]

\* The outgoing edge flux invocation u computes at loop offsets xyz.
OutFlux(u, axis, xyz, a) ==
  [kind |-> "out", unit |-> u, axis |-> axis, pt |-> xyz, ang |-> a]

\* Arrays are kept sparse: an entry never written is absent and reads as
\* the value the zero-initialised device memory holds.
Empty == [k \in {} |-> NoValue]

ReadAt(arr, k) == IF k \in DOMAIN arr THEN arr[k] ELSE NoValue

\* arr after the stores new (a function from entries to values).
WriteAll(arr, new) ==
  [k \in (DOMAIN arr) \cup (DOMAIN new) |-> IF k \in DOMAIN new THEN new[k] ELSE arr[k]]

RECURSIVE SumOver(_, _)
\* The sum of f[x] over the finite set S.
SumOver(f, S) ==
  IF S = {} THEN 0
  ELSE LET x == CHOOSE y \in S : TRUE IN f[x] + SumOver(f, S \ {x})

Ranges == 1 .. MaxRange

\* The angle index if the per-lane slots of a lane were not strided by the
\* lane count.
AngleOffsetUnstrided(ang, tid, bdim) == ang + tid

\* angle_read, angle_write: ptr += ang * blockDim.x + threadIdx.x
AngleOffset(ang, tid, bdim) == ang * bdim + tid

\* ang * blockDim.x + threadIdx.x for every lane and per-lane angle.
AnglesOf(c) ==
  { AngleOffset(ang, tid, blockDim) : ang \in 0 .. (c.thr - 1), tid \in 0 .. (blockDim - 1) }

NoCfg ==
  [thr |-> 1, xr |-> 1, yr |-> 1, zr |-> 1,
   sx |-> TRUE, sy |-> TRUE, sz |-> TRUE, td |-> FALSE]

\* Launch parameters of the pool model: one-cell chunks.
PoolCfgs ==
  { [thr |-> 1, xr |-> 1, yr |-> 1, zr |-> 1, sx |-> TRUE, sy |-> TRUE, sz |-> TRUE,
     td |-> TRUE] }

\* Launch parameters of the shared-scratch model: a column of cells along y.
ShareCfgs ==
  { [thr |-> 1, xr |-> 1, yr |-> MaxRange, zr |-> 1,
     sx |-> TRUE, sy |-> TRUE, sz |-> TRUE, td |-> TRUE] }

\* Launch parameters of the single-invocation model: every extent and corner.
VisitCfgs ==
  { [thr |-> t, xr |-> a, yr |-> b, zr |-> c, sx |-> p, sy |-> q, sz |-> r, td |-> d] :
       t \in 1 .. 2, a \in Ranges, b \in Ranges, c \in Ranges,
       p \in BOOLEAN, q \in BOOLEAN, r \in BOOLEAN, d \in BOOLEAN }

InFlight == { u \in Units : upc[u] \in {"scan", "run", "release"} }

Holds(u) == upc[u] \in {"run", "release"}

Adders == 1 .. NumAdders

\* The values the adders add, and the values the cell starts with.
AddValues == {0 - 1, 2}
CellValues == {0, 1}

\* No atomicAdd is under way.
AddIdle ==
  /\ flux_init = 0
  /\ flux_cell = 0
  /\ apc = [a \in Adders |-> "done"]
  /\ a_value = [a \in Adders |-> 0]
  /\ a_old = [a \in Adders |-> 0]
  /\ a_fails = [a \in Adders |-> 0]

\* The pool and the scratch after initialize_gpu_context, for a run whose
\* kernels have one of the lane counts dims.
\* The quadrature tables: device_ec[8 * 4 * MAX_ANGLES] and the four arrays
\* of MAX_ANGLES entries.
TableNames == {"ec", "mu", "eta", "xi", "w"}
TableSize(name) == IF name = "ec" THEN NumOctants * MaxMoments * MAX_ANGLES ELSE MAX_ANGLES

\* __device__ arrays are zero until something is copied into them.
NoTables == [name \in TableNames |-> [i \in 0 .. (TableSize(name) - 1) |-> 0]]

NoArgs == [num_angles |-> 0]

\* The host is in neither initialize_gpu_context nor run_gpu_sweep.
HostIdle ==
  /\ host_pc = "none"
  /\ args = NoArgs
  /\ angles_per_thread = 0
  /\ threads_per_cta = 0
  /\ launches = << >>
  /\ device_tables = NoTables

\* The device before any kernel has run.
PoolStart(dims) ==
  /\ blockDim \in dims
  /\ upc = [u \in Units |-> "idle"]
  /\ cfg = [u \in Units |-> NoCfg]
  /\ smid = [u \in Units |-> 0]
  /\ scan = [u \in Units |-> 0]
  /\ spun = [u \in Units |-> FALSE]
  /\ cta_chunk = [u \in Units |-> -1]
  /\ released = [u \in Units |-> 0]
  /\ probes = [u \in Units |-> << >>]
  /\ pos = [u \in Units |-> <<0, 0, 0>>]
  /\ psii = [u \in Units |-> Empty]
  /\ yflux_pencils = Empty
  /\ ghost = Empty
  /\ flux = Empty
  /\ zflux_planes = Empty
  /\ incoming = [u \in Units |-> [ax \in Axes |-> Empty]]
  /\ trail = [u \in Units |-> << >>]
  /\ time_flux = [k \in {} |-> 0]
  /\ scratch_log = [u \in Units |-> {}]

\* The device after initialize_gpu_context: every slot is available.
PoolInit(dims) ==
  /\ PoolStart(dims)
  /\ available_chunks = [s \in Slots |-> 1]
  /\ HostIdle

\* ------------------------------------------------- one CTA: the reductions
WarpSize == 2 ^ LogWarp
Lanes == 0 .. (WarpSize - 1)
Warps == 0 .. (WarpSize - 1)
MaxThreads == WarpSize * WarpSize
Threads == 0 .. (MaxThreads - 1)
Cells == 0 .. (CtaCells - 1)

NoCell == [t_xs |-> 0, vdelt |-> 0]
NoProfile == [psi |-> 0, in |-> <<0, 0, 0, 0>>, dinv |-> 0]

\* No fixup arithmetic is modelled: the registers hold nothing of interest.
FixupIdle ==
  /\ cell = NoCell
  /\ profile = [t \in Threads |-> NoProfile]
  /\ pc = [t \in Threads |-> <<0, 1>>]
  /\ hv = [t \in Threads |-> <<1, 1, 1, 1>>]
  /\ stored = [t \in Threads |-> NoValue]

NoKernel == [thr |-> 1, num_moments |-> 1, corner |-> 0, fixup |-> FALSE, seed |-> 0]

\* No kernel of the reduction model runs.
CtaIdle ==
  /\ kernel = NoKernel
  /\ rpc = [w \in Warps |-> "none"]
  /\ rcell = [w \in Warps |-> 0]
  /\ rl = [w \in Warps |-> 0]
  /\ iter = [w \in Warps |-> 0]
  /\ negative_fluxes = [t \in Threads |-> 0]
  /\ old_negative_fluxes = [t \in Threads |-> 0]
  /\ nf_of = [w \in Warps |-> 0]
  /\ counted = Empty
  /\ total = [t \in Threads |-> 0]
  /\ int_trampoline = [i \in Lanes |-> 0]
  /\ lane_chunk = [w \in Warps |-> -1]
  /\ double_trampoline = [i \in Lanes |-> 0]
  /\ flux_sum = [c \in Cells |-> 0]
  /\ flux_adds = [c \in Cells |-> 0]
  /\ fluxm_sum = Empty
  /\ fluxm_adds = Empty
  /\ FixupIdle

InitRun(dims) == PoolInit(dims) /\ AddIdle /\ CtaIdle

\* ---------------------------------------------------------------- actions
\* run_gpu_sweep launches the CTA of invocation u on one of the SMs sms;
\* invocations are numbered in the order the caller issues them, and cap is
\* the number of invocations the caller allows in flight.
Launch(u, cfgs, sms, cap) ==
  /\ upc[u] = "idle"
  /\ \A v \in Units : v < u => upc[v] # "idle"
  /\ Cardinality(InFlight) < cap
  /\ \E c \in cfgs : cfg' = [cfg EXCEPT ![u] = c]
  /\ \E m \in sms : smid' = [smid EXCEPT ![u] = m]
  /\ upc' = [upc EXCEPT ![u] = "scan"]
  /\ UNCHANGED <<blockDim, available_chunks, scan, spun, cta_chunk, released, probes, sweepVars>>
  /\ UNCHANGED <<addVars, ctaVars, hostVars>>

\* (mutation of ScanOffset: every unit starts its scan at slot 0)
ScanOffsetZero(id, i) == i % MAX_CTA

\* int offset = (smid + i) % MAX_CTA.
ScanOffset(id, i) == (id + i) % MAX_CTA

\* One iteration of the for loop of the acquisition: one atomicDec.
Probe(u) ==
  /\ upc[u] = "scan"
  /\ LET offset == ScanOffset(smid[u], scan[u])
         old == available_chunks[offset]
     IN /\ available_chunks' = [available_chunks EXCEPT ![offset] = AtomicDec(old, 0)]
        /\ probes' = [probes EXCEPT ![u] = IF AcquireHit(old) THEN << >>
                                          ELSE IF scan[u] = 0 THEN <<offset>>
                                          ELSE Append(@, offset)]
        /\ IF AcquireHit(old)
             THEN \* chunk = offset; break; int_trampoline[0] = chunk; the
                  \* block that declares smid and i ends
                  /\ cta_chunk' = [cta_chunk EXCEPT ![u] = offset]
                  /\ upc' = [upc EXCEPT ![u] = "run"]
                  /\ smid' = [smid EXCEPT ![u] = 0]
                  /\ scan' = [scan EXCEPT ![u] = 0]
                  /\ UNCHANGED spun
             ELSE /\ IF scan[u] = MAX_CTA - 1
                       THEN /\ scan' = [scan EXCEPT ![u] = 0]
                            /\ spun' = [spun EXCEPT ![u] =
                                         @ \/ Cardinality(InFlight) > MAX_CTA]
                       ELSE /\ scan' = [scan EXCEPT ![u] = scan[u] + 1]
                            /\ UNCHANGED spun
                  /\ UNCHANGED <<cta_chunk, upc, smid>>
  /\ UNCHANGED <<blockDim, cfg, released, sweepVars, addVars, ctaVars, hostVars>>

\* local_point of loop offsets xyz.
LocalPoint(c, xyz) ==
  << IF c.sx THEN Origin[1] + xyz[1] ELSE Origin[1] - xyz[1],
     IF c.sy THEN Origin[2] + xyz[2] ELSE Origin[2] - xyz[2],
     IF c.sz THEN Origin[3] + xyz[3] ELSE Origin[3] - xyz[3] >>

\* ghost_point of an axis: the upstream neighbour of local_point.
GhostPoint(c, axis, lp) ==
  CASE axis = "x" -> << IF c.sx THEN lp[1] - 1 ELSE lp[1] + 1, lp[2], lp[3] >>
    [] axis = "y" -> << lp[1], IF c.sy THEN lp[2] - 1 ELSE lp[2] + 1, lp[3] >>
    [] axis = "z" -> << lp[1], lp[2], IF c.sz THEN lp[3] - 1 ELSE lp[3] + 1 >>

\* (mutation of NextPos: the y loop is the innermost one)
NextPosYInner(c, xyz) ==
  IF xyz[2] + 1 < c.yr THEN << xyz[1], xyz[2] + 1, xyz[3] >>
  ELSE IF xyz[1] + 1 < c.xr THEN << xyz[1] + 1, 0, xyz[3] >>
  ELSE << 0, 0, xyz[3] + 1 >>

\* The loop counters after the body of (x, y, z): x innermost, z outermost.
NextPos(c, xyz) ==
  IF xyz[1] + 1 < c.xr THEN << xyz[1] + 1, xyz[2], xyz[3] >>
  ELSE IF xyz[2] + 1 < c.yr THEN << 0, xyz[2] + 1, xyz[3] >>
  ELSE << 0, 0, xyz[3] + 1 >>

\* The cell at offset along an axis is on the boundary where the flux flows out if
\* the outflow test looked at the first offset.
OutflowFirst(offset, range) == offset = 0

\* x == (x_range - 1): the cell is the last one of the chunk along the axis.
Outflow(offset, range) == offset = range - 1

\* The stores of angle_write(ghost<axis>_out_ptr, ..., local_point, ang, val)
\* for every angle of the unit, made when the cell is on the outflow boundary.
GhostOut(u, axis, offset, range, lp, mine, xyz) ==
  IF Outflow(offset, range)
    THEN [k \in {<<u, "out", axis, lp, a>> : a \in mine} |-> OutFlux(u, axis, xyz, k[5])]
    ELSE Empty

\* arr after one more access to each of the entries keys.
Accessed(arr, keys) ==
  [k \in (DOMAIN arr) \cup keys |->
     (IF k \in DOMAIN arr THEN arr[k] ELSE 0) + (IF k \in keys THEN 1 ELSE 0)]

\* (mutation of TimeFluxAccess: time_flux_out is written for the cells of the
\* first plane along x only)
TimeFluxBoundary(u, c, lp, mine) ==
  IF c.td
    THEN { <<u, "in", lp, a>> : a \in mine }
         \cup (IF lp[1] = Origin[1] THEN { <<u, "out", lp, a>> : a \in mine } ELSE {})
    ELSE {}

\* The entries of the time flux fields the lanes of the unit access for
\* one cell: angle_read(time_flux_in_ptr, ...) and angle_write(time_flux_out_ptr,
\* ...) for each of its angles in the time-dependent kernels, nothing in
\* the time-independent ones.
TimeFluxAccess(u, c, lp, mine) ==
  IF c.td THEN { <<u, dir, lp, a>> : dir \in {"in", "out"}, a \in mine } ELSE {}

\* The first index of the scratch buffers if it were the slot the
\* acquisition loop probes first.
ScratchSlotFirstProbed(u) == ScanOffset(smid[u], 0)

\* The first index of every scratch access: yflux_pencils[cta_chunk][x]
\* (lines 298, 315, 495) and zflux_planes[cta_chunk][y][x] (lines 336, 353,
\* 506).
ScratchSlot(u) == cta_chunk[u]

\* The scratch accesses of the lanes of unit u for the cell at offsets
\* (x, y, z): the reads of the incoming y and z fluxes of a cell that is not
\* on the inflow boundary, the writes of the outgoing ones of a cell that is
\* not on the outflow boundary.
ScratchAccess(u, c, x, y, z, mine) ==
  LET s == ScratchSlot(u)
  IN (IF y = 0 THEN {} ELSE {<<"yflux_pencils", "read", <<s, x, a>>>> : a \in mine})
     \cup (IF z = 0 THEN {} ELSE {<<"zflux_planes", "read", <<s, y, x, a>>>> : a \in mine})
     \cup (IF Outflow(y, c.yr) THEN {}
           ELSE {<<"yflux_pencils", "write", <<s, x, a>>>> : a \in mine})
     \cup (IF Outflow(z, c.zr) THEN {}
           ELSE {<<"zflux_planes", "write", <<s, y, x, a>>>> : a \in mine})

\* The body of the cell loops for one cell, all lanes of the unit.
Cell(u) ==
  /\ upc[u] = "run"
  /\ LET c == cfg[u]
         xyz == pos[u]
         x == xyz[1]
         y == xyz[2]
         z == xyz[3]
         s == ScratchSlot(u)
         lp == LocalPoint(c, xyz)
         mine == AnglesOf(c)
         inx == [a \in mine |->
                   IF x = 0 THEN GhostIn(u, "x", GhostPoint(c, "x", lp), a)
                   ELSE ReadAt(psii[u], a)]
         iny == [a \in mine |->
                   IF y = 0 THEN GhostIn(u, "y", GhostPoint(c, "y", lp), a)
                   ELSE ReadAt(yflux_pencils, <<s, x, a>>)]
         inz == [a \in mine |->
                   IF z = 0 THEN GhostIn(u, "z", GhostPoint(c, "z", lp), a)
                   ELSE ReadAt(zflux_planes, <<s, y, x, a>>)]
         nxt == NextPos(c, xyz)
     IN /\ incoming' = [incoming EXCEPT ![u] = [ax \in Axes |->
                          CASE ax = "x" -> inx [] ax = "y" -> iny [] ax = "z" -> inz]]
        /\ psii' = [psii EXCEPT ![u] = [a \in mine |-> OutFlux(u, "x", xyz, a)]]
        /\ ghost' = WriteAll(WriteAll(WriteAll(ghost,
                      GhostOut(u, "x", x, c.xr, lp, mine, xyz)),
                      GhostOut(u, "y", y, c.yr, lp, mine, xyz)),
                      GhostOut(u, "z", z, c.zr, lp, mine, xyz))
        /\ yflux_pencils' =
             IF Outflow(y, c.yr) THEN yflux_pencils
             ELSE WriteAll(yflux_pencils,
                    [k \in {<<s, x, a>> : a \in mine} |-> OutFlux(u, "y", xyz, k[3])])
        /\ zflux_planes' =
             IF Outflow(z, c.zr) THEN zflux_planes
             ELSE WriteAll(zflux_planes,
                    [k \in {<<s, y, x, a>> : a \in mine} |-> OutFlux(u, "z", xyz, k[4])])
        /\ time_flux' = Accessed(time_flux, TimeFluxAccess(u, c, lp, mine))
        /\ scratch_log' = [scratch_log EXCEPT ![u] = @ \cup ScratchAccess(u, c, x, y, z, mine)]
        /\ trail' = [trail EXCEPT ![u] = Append(@, lp)]
        /\ pos' = [pos EXCEPT ![u] = nxt]
        /\ upc' = [upc EXCEPT ![u] = IF nxt[3] < c.zr THEN "run" ELSE "release"]
  /\ UNCHANGED <<blockDim, available_chunks, cfg, smid, scan, spun, cta_chunk, released, probes, flux>>
  /\ UNCHANGED <<addVars, ctaVars, hostVars>>

\* One lane executes the atomicInc that ends the kernel; with the last lane
\* the kernel returns and its parameters, registers and records are gone.
ReleaseLane(u) ==
  /\ upc[u] = "release"
  /\ released[u] < blockDim
  /\ available_chunks' =
       [available_chunks EXCEPT ![cta_chunk[u]] = AtomicInc(@, 1)]
  /\ IF released[u] + 1 = blockDim
       THEN /\ upc' = [upc EXCEPT ![u] = "done"]
            /\ released' = [released EXCEPT ![u] = 0]
            /\ cfg' = [cfg EXCEPT ![u] = NoCfg]
            /\ spun' = [spun EXCEPT ![u] = FALSE]
            /\ pos' = [pos EXCEPT ![u] = <<0, 0, 0>>]
            /\ psii' = [psii EXCEPT ![u] = Empty]
            /\ incoming' = [incoming EXCEPT ![u] = [ax \in Axes |-> Empty]]
            /\ trail' = [trail EXCEPT ![u] = << >>]
            /\ scratch_log' = [scratch_log EXCEPT ![u] = {}]
       ELSE /\ released' = [released EXCEPT ![u] = @ + 1]
            /\ UNCHANGED <<upc, cfg, spun, pos, psii, incoming, trail, scratch_log>>
  /\ UNCHANGED <<blockDim, smid, scan, cta_chunk, probes, yflux_pencils, zflux_planes, ghost,
                 flux, time_flux, addVars,
                 ctaVars, hostVars>>

UnitStep(u) == Probe(u) \/ Cell(u) \/ ReleaseLane(u)

\* The caller keeps at most MAX_CTA invocations in flight.
Init == InitRun(1 .. MaxLanes)

Next == \E u \in Units : Launch(u, PoolCfgs, SMs, MAX_CTA) \/ UnitStep(u)

Spec == Init /\ [][Next]_vars

\* Every resident warp is scheduled again and again: each unit that can
\* take a step eventually takes one.
FairSpec == Spec /\ \A u \in Units : WF_vars(UnitStep(u))

\* The caller puts no limit on the invocations in flight.
NextOver == \E u \in Units : Launch(u, PoolCfgs, SMs, NumUnits) \/ UnitStep(u)

SpecOver == Init /\ [][NextOver]_vars

\* Invocations that share the scratch pool while they sweep a column of cells.
InitShare == InitRun({MaxLanes})

NextShare == \E u \in Units : Launch(u, ShareCfgs, {0}, MAX_CTA) \/ UnitStep(u)

SpecShare == InitShare /\ [][NextShare]_vars

\* One invocation alone, for every chunk extent, corner and lane count.
NextVisit == Launch(1, VisitCfgs, {0}, 1) \/ UnitStep(1)

SpecVisit == Init /\ [][NextVisit]_vars

\* Launch parameters of the scratch model: a slab of the largest x extent
\* initialize_gpu_context lets through and two cells along y, which uses the
\* pencil up to its last row, and a sheet of two by two cells along y and z,
\* which uses pencil and plane.
ScratchCfgs ==
  { [thr |-> 1, xr |-> r[1], yr |-> 2, zr |-> r[2], sx |-> TRUE, sy |-> TRUE,
     sz |-> TRUE, td |-> FALSE] : r \in {<<MAX_X_CHUNK, 1>>, <<1, 2>>} }

\* As many invocations as there are slots, all on the SM whose %smid is
\* MAX_CTA + 1, sweep such chunks while they share the pool.
NextScratch ==
  \E u \in 1 .. MAX_CTA : Launch(u, ScratchCfgs, {MAX_CTA + 1}, MAX_CTA) \/ UnitStep(u)

SpecScratch == InitShare /\ [][NextScratch]_vars

\* ---------------------------------------------------------------- atomicAdd
\* (mutation of AtomicCAS: an unconditional store)
AtomicStore(cur, compare, val) == val

\* The value atomicCAS(address, compare, val) leaves at the address; the
\* call returns the value that was there.
AtomicCAS(cur, compare, val) == IF cur = compare THEN val ELSE cur

\* Every adder is about to call atomicAdd(ptr, value) on the same cell.
InitAdd ==
  /\ flux_init \in CellValues
  /\ flux_cell = flux_init
  /\ apc = [a \in Adders |-> "read"]
  /\ a_value \in [Adders -> AddValues]
  /\ a_old = [a \in Adders |-> 0]
  /\ a_fails = [a \in Adders |-> 0]
  /\ PoolInit({1})
  /\ CtaIdle

\* old = *address_as_ull
AddRead(a) ==
  /\ apc[a] = "read"
  /\ a_old' = [a_old EXCEPT ![a] = flux_cell]
  /\ apc' = [apc EXCEPT ![a] = "cas"]
  /\ UNCHANGED <<flux_init, flux_cell, a_value, a_fails, poolVars, sweepVars, ctaVars, hostVars>>

\* The next value of old if the loop kept the value it had read before.
ReloadStale(prev, returned) == prev

\* old = atomicCAS(...): old becomes what the compare-and-swap returned, the
\* value the cell held, which the next iteration assumes.
Reload(prev, returned) == returned

\* assumed = old; old = atomicCAS(address, assumed, value + assumed);
\* while (assumed != old)
AddCAS(a) ==
  /\ apc[a] = "cas"
  /\ LET assumed == a_old[a]
         old == flux_cell
     IN /\ flux_cell' = AtomicCAS(flux_cell, assumed, a_value[a] + assumed)
        /\ a_old' = [a_old EXCEPT ![a] = Reload(assumed, old)]
        /\ IF assumed # old
             THEN /\ a_fails' = [a_fails EXCEPT ![a] = @ + 1]
                  /\ UNCHANGED apc
             ELSE /\ apc' = [apc EXCEPT ![a] = "done"]
                  /\ UNCHANGED a_fails
  /\ UNCHANGED <<flux_init, a_value, poolVars, sweepVars, ctaVars, hostVars>>

NextAdd == \E a \in Adders : AddRead(a) \/ AddCAS(a)

SpecAdd == InitAdd /\ [][NextAdd]_vars

\* The adders are threads of resident CTAs, which the device keeps
\* scheduling: an adder that can take a step eventually takes one.
FairSpecAdd == SpecAdd /\ \A a \in Adders : WF_vars(AddRead(a) \/ AddCAS(a))

\* ------------------------------------------------------------------ claims
\* C1: in every reachable state no slot index is held by two compute units
\* at once; a unit holds its slot from the successful atomicDec until its
\* last lane has executed the release.
MutualExclusion ==
  \A u, v \in Units :
    (u # v /\ Holds(u) /\ Holds(v)) => cta_chunk[u] # cta_chunk[v]

\* C2: once an invocation has completed (all its lanes executed the release)
\* and no other invocation is running, the slot it held is available again.
ReleaseRestores ==
  \A u \in Units :
    (upc[u] = "done" /\ InFlight = {}) => available_chunks[cta_chunk[u]] = 1

\* C3: with at most MAX_CTA invocations in flight and fair scheduling, every
\* invocation that starts its acquisition eventually completes.
AcquisitionLiveness ==
  \A u \in Units : (upc[u] = "scan") ~> (upc[u] = "done")

OffsetsOf(c, k) == << k % c.xr, (k \div c.xr) % c.yr, k \div (c.xr * c.yr) >>

Sign(positive) == IF positive THEN 1 ELSE -1

PointOf(c, off) ==
  << Origin[1] + Sign(c.sx) * off[1],
     Origin[2] + Sign(c.sy) * off[2],
     Origin[3] + Sign(c.sz) * off[3] >>

Active(u) == upc[u] \in {"run", "release"}

\* The incoming edge flux the claim expects on an axis of the cell at off.
ExpectedIn(u, axis, off, a) ==
  LET i == CASE axis = "x" -> 1 [] axis = "y" -> 2 [] axis = "z" -> 3
  IN IF off[i] = 0
       THEN GhostIn(u, axis, GhostPoint(cfg[u], axis, PointOf(cfg[u], off)), a)
       ELSE OutFlux(u, axis, [off EXCEPT ![i] = @ - 1], a)

\* C9: the incoming edge flux a cell uses on an axis comes from that axis's
\* ghost-in buffer when the offset on the axis is 0, and otherwise is the
\* outgoing edge flux the same invocation computed, for the same angle, at
\* the cell whose offset on that axis is one less.
SweepRecurrence ==
  \A u \in Units :
    (Active(u) /\ trail[u] # << >>) =>
      LET off == OffsetsOf(cfg[u], Len(trail[u]) - 1)
      IN \A axis \in Axes : \A a \in AnglesOf(cfg[u]) :
           incoming[u][axis][a] = ExpectedIn(u, axis, off, a)

\* C10: the cells processed so far are, in this order, the first cells of
\* the chunk enumerated with z outermost, y in the middle and x innermost,
\* each at origin plus or minus its offsets; none is repeated, and when the
\* loops end all x_range*y_range*z_range cells have been processed.
VisitOrder ==
  \A u \in Units :
    Active(u) =>
      LET c == cfg[u]
          n == Len(trail[u])
      IN /\ \A k \in 1 .. n : trail[u][k] = PointOf(c, OffsetsOf(c, k - 1))
         /\ \A j, k \in 1 .. n : j # k => trail[u][j] # trail[u][k]
         /\ n <= c.xr * c.yr * c.zr
         /\ upc[u] = "run" => pos[u] = OffsetsOf(c, n)
         /\ upc[u] = "release" => n = c.xr * c.yr * c.zr

\* C10 witness: a whole chunk of the largest extents has been swept against
\* the x axis and along the z axis.
VisitedWholeChunk ==
  /\ upc[1] = "release"
  /\ Len(trail[1]) = MaxRange * MaxRange * MaxRange
  /\ ~cfg[1].sx
  /\ cfg[1].sz

\* C8: under every interleaving of the adders' reads and compare-and-swaps
\* the cell holds its initial value plus the values of all adders whose
\* atomicAdd has returned; when all have returned, plus all added values.
AtomicAddExact ==
  flux_cell = flux_init + SumOver(a_value, {a \in Adders : apc[a] = "done"})

\* C8 witness: every atomicAdd has returned, one of them after a failed
\* compare-and-swap, and two adders added different values.
AllAddedAfterRetry ==
  /\ \A a \in Adders : apc[a] = "done"
  /\ \E a \in Adders : a_fails[a] > 0
  /\ \E a, b \in Adders : a_value[a] # a_value[b]

\* ------------------------------------------ one CTA: warps, lanes, shuffles
\* threads_per_cta of the launch; warpid and laneid of thread t are
\* t \div WarpSize and t % WarpSize.
NumWarps == (blockDim + WarpSize - 1) \div WarpSize
ActiveWarps == 0 .. (NumWarps - 1)
Tid(warpid, laneid) == warpid * WarpSize + laneid
\* The lanes of a warp that hold a thread of the CTA.
ActiveLanes(warpid) == {laneid \in Lanes : Tid(warpid, laneid) < blockDim}

\* What __shfl_xor may return when its source lane holds no thread: the value
\* is undefined, here any element of this set.
Garbage == {0, 1}
Undefined(warpid) == IF ActiveLanes(warpid) = Lanes THEN {0} ELSE Garbage

\* laneid ^ i for a power of two i.
XorLane(laneid, i) == IF (laneid \div i) % 2 = 0 THEN laneid + i ELSE laneid - i

\* One round `v += __shfl_xor(v, i, 32)` of a warp whose lanes act hold
\* threads; g is what a lane without a thread is read as.
ShflXorAdd(v, i, act, g) ==
  [laneid \in Lanes |->
     IF laneid \in act
       THEN v[laneid] + (IF XorLane(laneid, i) \in act THEN v[XorLane(laneid, i)] ELSE g)
       ELSE v[laneid]]

RECURSIVE Butterfly(_, _, _, _)
\* for (int i = 16; i >= 1; i /= 2) v += __shfl_xor(v, i, 32);
Butterfly(v, i, act, g) ==
  IF i < 1 THEN v ELSE Butterfly(ShflXorAdd(v, i, act, g), i \div 2, act, g)

WarpReduce(v, act, g) == Butterfly(v, WarpSize \div 2, act, g)

\* The registers f of all threads after the lanes of warpid took the values red.
SetLanes(f, warpid, red) ==
  [t \in Threads |->
     IF t \div WarpSize = warpid /\ (t % WarpSize) \in ActiveLanes(warpid)
       THEN red[t % WarpSize] ELSE f[t]]

\* The shared array tramp after `if (warpid == 0) tramp[laneid] = 0`.
Zeroed(tramp, warpid) ==
  IF warpid = 0
    THEN [i \in Lanes |-> IF i \in ActiveLanes(0) THEN 0 ELSE tramp[i]]
    ELSE tramp

\* The shared array tramp after `if (laneid == 0) tramp[warpid] = v` of a warp
\* whose lane 0 holds v.
Staged(tramp, warpid, v) == [tramp EXCEPT ![warpid] = v]

\* ------------------------------------------------ one CTA: tables and inputs
num_angles == kernel.thr * blockDim
\* device_w and device_ec as initialize_gpu_context copied them, and the
\* registers pc[] of the cell: small values that differ from angle to angle.
device_w(idx) == idx + 1
device_ec(k) == k + 1
PcOf(idx) == 1 + ((idx + kernel.seed) % 2)

ThrAngles == 0 .. (kernel.thr - 1)
\* psi[ang] = device_w[ang * blockDim.x + threadIdx.x] * pc[ang]
PsiOf(t, ang) == device_w(ang * blockDim + t) * PcOf(ang * blockDim + t)
\* total of thread t before the scalar reduction.
OwnTotal(t) == SumOver([ang \in ThrAngles |-> PsiOf(t, ang)], ThrAngles)
\* offset of the moment loop.
MomentOffset(l) == l * num_angles + kernel.corner * num_angles * kernel.num_moments
\* total of thread t before the reduction of moment l.
OwnMoment(t, l) ==
  SumOver([ang \in ThrAngles |-> device_ec(MomentOffset(l) + ang) * PsiOf(t, ang)], ThrAngles)
\* The index of device_ec thread t uses for its angle ang when it builds the
\* source of moment l: moment_offset + ang * blockDim.x + threadIdx.x.
SourceIndex(t, ang, l) ==
  (kernel.corner * num_angles * kernel.num_moments + l * num_angles) + ang * blockDim + t

\* The negative-flux counts the lanes of a warp find in one iteration.
CountPatterns == {"none", "one", "all"}
OwnCount(p, laneid) == IF p = "all" \/ (p = "one" /\ laneid = 0) THEN 1 ELSE 0

Kernels(fixups) ==
  [thr : 1 .. 2, num_moments : 1 .. MaxMoments, corner : {0, 1}, fixup : fixups,
   seed : {0, 1}]

StartPc == IF kernel.fixup THEN "count" ELSE "sum"

\* A CTA of one of the sizes dims is at the first cell of its chunk; nothing
\* else runs.
CtaStart(dims, kernels) ==
  /\ PoolInit(dims)
  /\ AddIdle
  /\ kernel \in kernels
  /\ rpc = [w \in Warps |-> IF w \in ActiveWarps THEN StartPc ELSE "none"]
  /\ rcell = [w \in Warps |-> 0]
  /\ rl = [w \in Warps |-> 0]
  /\ iter = [w \in Warps |-> 0]
  /\ negative_fluxes = [t \in Threads |-> 0]
  /\ old_negative_fluxes = [t \in Threads |-> 0]
  /\ nf_of = [w \in Warps |-> 0]
  /\ counted = Empty
  /\ total = [t \in Threads |-> 0]
  /\ int_trampoline = [i \in Lanes |-> 0]
  /\ lane_chunk = [w \in Warps |-> -1]
  /\ double_trampoline = [i \in Lanes |-> 0]
  /\ flux_sum = [c \in Cells |-> 0]
  /\ flux_adds = [c \in Cells |-> 0]
  /\ fluxm_sum = Empty
  /\ fluxm_adds = Empty

InitCta(dims, kernels) == CtaStart(dims, kernels) /\ FixupIdle

otherVars == <<poolVars, sweepVars, addVars, fixupVars, hostVars, lane_chunk>>
fixVars == <<iter, negative_fluxes, old_negative_fluxes, nf_of, counted, int_trampoline>>
sumVars == <<total, double_trampoline, flux_sum, flux_adds, fluxm_sum, fluxm_adds>>

\* ------------------------------------------------ one CTA: the fixup loop
\* Lines 390-431: a warp counts its negative fluxes, reduces them over its
\* lanes, warp 0 zeroes the staging array, and the warp arrives at the barrier.
FixCount(w) ==
  /\ rpc[w] = "count"
  /\ iter[w] < MaxIter
  /\ \E p \in CountPatterns, g \in Undefined(w) :
       LET own == [laneid \in Lanes |-> OwnCount(p, laneid)]
           keys == {<<rcell[w], iter[w] + 1, Tid(w, laneid)>> : laneid \in ActiveLanes(w)}
       IN /\ counted' = WriteAll(counted, [k \in keys |-> own[k[3] % WarpSize]])
          /\ negative_fluxes' =
               SetLanes(negative_fluxes, w, WarpReduce(own, ActiveLanes(w), g))
  /\ int_trampoline' = Zeroed(int_trampoline, w)
  /\ iter' = [iter EXCEPT ![w] = @ + 1]
  /\ nf_of' = [nf_of EXCEPT ![w] = 0]
  /\ rpc' = [rpc EXCEPT ![w] = "bar_count"]
  /\ UNCHANGED <<kernel, rcell, rl, old_negative_fluxes, sumVars, otherVars>>

\* Lines 432-434: lane 0 stages the count of its warp.
FixStage(w) ==
  /\ rpc[w] = "cstage"
  /\ int_trampoline' = Staged(int_trampoline, w, negative_fluxes[Tid(w, 0)])
  /\ rpc' = [rpc EXCEPT ![w] = "bar_cstage"]
  /\ UNCHANGED <<kernel, rcell, rl, iter, negative_fluxes, old_negative_fluxes, nf_of,
                 counted, sumVars, otherVars>>

\* Lines 435-442: every lane reads one staged entry, the warp reduces them,
\* and compares with the count of the iteration before: equal ends the loop.
\* A warp whose lanes disagree splits up and is not followed further.
FixRead(w) ==
  /\ rpc[w] = "cread"
  /\ \E g \in Undefined(w) :
       LET red == WarpReduce(int_trampoline, ActiveLanes(w), g)
           same == {laneid \in ActiveLanes(w) :
                      red[laneid] = old_negative_fluxes[Tid(w, laneid)]}
       IN /\ negative_fluxes' = SetLanes(negative_fluxes, w, red)
          /\ nf_of' = [nf_of EXCEPT ![w] = iter[w]]
          /\ IF same = ActiveLanes(w)
               THEN /\ rpc' = [rpc EXCEPT ![w] = "sum"]
                    /\ UNCHANGED old_negative_fluxes
               ELSE IF same = {}
                 THEN /\ rpc' = [rpc EXCEPT ![w] = "count"]
                      /\ old_negative_fluxes' = SetLanes(old_negative_fluxes, w, red)
                 ELSE /\ rpc' = [rpc EXCEPT ![w] = "diverged"]
                      /\ UNCHANGED old_negative_fluxes
  /\ UNCHANGED <<kernel, rcell, rl, iter, counted, int_trampoline, sumVars, otherVars>>

\* ------------------------------------------- one CTA: the scalar reduction
\* Lines 509-524: per-thread total, reduction over the warp, warp 0 zeroes
\* the staging array.
Sum(w) ==
  /\ rpc[w] = "sum"
  /\ \E g \in Undefined(w) :
       total' = SetLanes(total, w,
                  WarpReduce([laneid \in Lanes |-> OwnTotal(Tid(w, laneid))],
                             ActiveLanes(w), g))
  /\ double_trampoline' = Zeroed(double_trampoline, w)
  /\ rpc' = [rpc EXCEPT ![w] = "bar_sum"]
  /\ UNCHANGED <<kernel, rcell, rl, flux_sum, flux_adds, fluxm_sum, fluxm_adds,
                 fixVars, otherVars>>

\* Lines 525-527: lane 0 stages the total of its warp.
SumStage(w) ==
  /\ rpc[w] = "sstage"
  /\ double_trampoline' = Staged(double_trampoline, w, total[Tid(w, 0)])
  /\ rpc' = [rpc EXCEPT ![w] = "bar_sstage"]
  /\ UNCHANGED <<kernel, rcell, rl, total, flux_sum, flux_adds, fluxm_sum, fluxm_adds,
                 fixVars, otherVars>>

\* What a warp does after the reductions of a cell: the next cell of the
\* chunk, or the end of the kernel, whose last statement is the atomicInc
\* that releases the slot (line 575).
ToNextCell(w) ==
  /\ rcell' = [rcell EXCEPT ![w] = @ + 1]
  /\ rl' = [rl EXCEPT ![w] = 0]
  /\ iter' = [iter EXCEPT ![w] = 0]
  /\ nf_of' = [nf_of EXCEPT ![w] = 0]
  /\ old_negative_fluxes' = SetLanes(old_negative_fluxes, w, [laneid \in Lanes |-> 0])
  /\ rpc' = [rpc EXCEPT ![w] = IF rcell[w] + 1 < CtaCells THEN StartPc ELSE "end"]

\* Lines 528-543: warp 0 reads the staged totals, reduces them, and its lane 0
\* adds the result to the scalar flux of the cell; every warp goes on to the
\* moments, or to the next cell.
SumFinal(w) ==
  /\ rpc[w] = "sfinal"
  /\ IF w = 0
       THEN \E g \in Undefined(w) :
              LET red == WarpReduce(double_trampoline, ActiveLanes(w), g)
              IN /\ total' = SetLanes(total, w, red)
                 /\ flux_sum' = [flux_sum EXCEPT ![rcell[w]] = @ + red[0]]
                 /\ flux_adds' = [flux_adds EXCEPT ![rcell[w]] = @ + 1]
       ELSE UNCHANGED <<total, flux_sum, flux_adds>>
  /\ IF kernel.num_moments > 1
       THEN /\ rl' = [rl EXCEPT ![w] = 1]
            /\ rpc' = [rpc EXCEPT ![w] = "mom"]
            /\ UNCHANGED <<rcell, iter, nf_of, old_negative_fluxes>>
       ELSE ToNextCell(w)
  /\ UNCHANGED <<kernel, double_trampoline, fluxm_sum, fluxm_adds, negative_fluxes,
                 counted, int_trampoline, otherVars>>

\* ------------------------------------------- one CTA: the moment reduction
\* Lines 544-549: per-thread total of moment l.
Mom(w) ==
  /\ rpc[w] = "mom"
  /\ total' = SetLanes(total, w, [laneid \in Lanes |-> OwnMoment(Tid(w, laneid), rl[w])])
  /\ rpc' = [rpc EXCEPT ![w] = "bar_mom"]
  /\ UNCHANGED <<kernel, rcell, rl, double_trampoline, flux_sum, flux_adds, fluxm_sum,
                 fluxm_adds, fixVars, otherVars>>

\* Lines 550-552: warp 0 zeroes the staging array.
MomZero(w) ==
  /\ rpc[w] = "mzero"
  /\ double_trampoline' = Zeroed(double_trampoline, w)
  /\ rpc' = [rpc EXCEPT ![w] = "bar_mzero"]
  /\ UNCHANGED <<kernel, rcell, rl, total, flux_sum, flux_adds, fluxm_sum, fluxm_adds,
                 fixVars, otherVars>>

\* Lines 553-555: lane 0 stages the total it holds.
MomStage(w) ==
  /\ rpc[w] = "mstage"
  /\ double_trampoline' = Staged(double_trampoline, w, total[Tid(w, 0)])
  /\ rpc' = [rpc EXCEPT ![w] = "bar_mstage"]
  /\ UNCHANGED <<kernel, rcell, rl, total, flux_sum, flux_adds, fluxm_sum, fluxm_adds,
                 fixVars, otherVars>>

\* Lines 556-569: warp 0 reads the staged totals; every warp reduces the
\* totals its lanes hold, and lane 0 of every warp adds the result to moment
\* l - 1 of the cell.
MomFinal(w) ==
  /\ rpc[w] = "mfinal"
  /\ \E g \in Undefined(w) :
       LET held == IF w = 0 THEN double_trampoline
                   ELSE [laneid \in Lanes |-> total[Tid(w, laneid)]]
           red == WarpReduce(held, ActiveLanes(w), g)
           key == <<rcell[w], rl[w]>>
       IN /\ total' = SetLanes(total, w, red)
          /\ fluxm_sum' = WriteAll(fluxm_sum,
               [k \in {key} |-> (IF key \in DOMAIN fluxm_sum THEN fluxm_sum[key] ELSE 0)
                                + red[0]])
          /\ fluxm_adds' = WriteAll(fluxm_adds,
               [k \in {key} |-> (IF key \in DOMAIN fluxm_adds THEN fluxm_adds[key] ELSE 0)
                                + 1])
  /\ IF rl[w] + 1 < kernel.num_moments
       THEN /\ rl' = [rl EXCEPT ![w] = @ + 1]
            /\ rpc' = [rpc EXCEPT ![w] = "mom"]
            /\ UNCHANGED <<rcell, iter, nf_of, old_negative_fluxes>>
       ELSE ToNextCell(w)
  /\ UNCHANGED <<kernel, double_trampoline, flux_sum, flux_adds, negative_fluxes,
                 counted, int_trampoline, otherVars>>

\* ------------------------------------------------------ one CTA: barriers
Bars == {"bar_acq", "bar_chunk", "bar_count", "bar_cstage", "bar_sum", "bar_sstage",
         "bar_mom", "bar_mzero", "bar_mstage"}

AfterBar(p) ==
  CASE p = "bar_acq" -> "chunk"
    [] p = "bar_chunk" -> StartPc
    [] p = "bar_count" -> "cstage"
    [] p = "bar_cstage" -> "cread"
    [] p = "bar_sum" -> "sstage"
    [] p = "bar_sstage" -> "sfinal"
    [] p = "bar_mom" -> "mzero"
    [] p = "bar_mzero" -> "mstage"
    [] p = "bar_mstage" -> "mfinal"
    [] OTHER -> p

\* __syncthreads(): once every warp of the CTA has arrived at a barrier, all
\* of them go on.
SyncThreads ==
  /\ \A w \in ActiveWarps : rpc[w] \in Bars
  /\ rpc' = [w \in Warps |-> AfterBar(rpc[w])]
  /\ UNCHANGED <<kernel, rcell, rl, fixVars, sumVars, otherVars>>

FixStep(w) == FixCount(w) \/ FixStage(w) \/ FixRead(w)

SumStep(w) ==
  \/ Sum(w) \/ SumStage(w) \/ SumFinal(w)
  \/ Mom(w) \/ MomZero(w) \/ MomStage(w) \/ MomFinal(w)

\* The kernels with fixup on CTAs of whole warps.
FullDims == {n * WarpSize : n \in 1 .. WarpSize}
FixKernels == {k \in Kernels({TRUE}) : k.thr = 1 /\ k.corner = 0 /\ k.seed = 0}
InitFix == InitCta(FullDims, FixKernels)
NextFix == SyncThreads \/ \E w \in Warps : FixStep(w) \/ SumStep(w)
SpecFix == InitFix /\ [][NextFix]_vars

\* The kernels without fixup on CTAs of every size.
InitSum == InitCta(1 .. MaxThreads, Kernels({FALSE}))
NextSum == SyncThreads \/ \E w \in Warps : SumStep(w)
SpecSum == InitSum /\ [][NextSum]_vars

\* The kernels without fixup on CTAs of whole warps.
InitSumFull == InitCta(FullDims, Kernels({FALSE}))
SpecSumFull == InitSumFull /\ [][NextSum]_vars

\* The sum of the counts the threads of the CTA found in iteration k of cell c.
CountTotal(c, k) ==
  SumOver([t \in 0 .. (blockDim - 1) |->
             IF <<c, k, t>> \in DOMAIN counted THEN counted[<<c, k, t>>] ELSE 0],
          0 .. (blockDim - 1))

\* C5: in every iteration of the fixup loop, once a warp has done the count
\* reduction, each of its lanes holds the sum of the counts of all threads of
\* the CTA for that iteration (so all lanes of the CTA hold the same value).
CountAgreement ==
  \A w \in ActiveWarps :
    nf_of[w] > 0 =>
      \A laneid \in ActiveLanes(w) :
        negative_fluxes[Tid(w, laneid)] = CountTotal(rcell[w], nf_of[w])

AllAngles == 0 .. (num_angles - 1)
\* The sequential sum of weight[angle] * pc[angle] over the angles of the CTA.
ExpectedFlux == SumOver([a \in AllAngles |-> device_w(a) * PcOf(a)], AllAngles)

\* C6: for every cell and every number of threads, what the invocation has
\* added to the scalar flux of a cell is the sum of weight[angle] * pc[angle]
\* over all angles of the CTA.
ScalarFluxSum ==
  \A c \in Cells : flux_adds[c] > 0 => flux_sum[c] = ExpectedFlux

\* The sequential sum of ec[corner, l, angle] * weight[angle] * pc[angle].
ExpectedMoment(l) ==
  SumOver([a \in AllAngles |-> device_ec(MomentOffset(l) + a) * device_w(a) * PcOf(a)],
          AllAngles)

\* Warp w has done the reduction of moment l of cell c.
MomentDone(w, c, l) ==
  \/ rcell[w] > c
  \/ rcell[w] = c /\ rl[w] > l

\* C7: for every cell and every moment l >= 1, once every warp is past the
\* reduction of moment l, the total added to moment l - 1 of the cell is the
\* sum of ec[corner, l, angle] * weight[angle] * pc[angle] over all angles.
MomentSum ==
  \A c \in Cells : \A l \in 1 .. (MaxMoments - 1) :
    (l < kernel.num_moments /\ \A w \in ActiveWarps : MomentDone(w, c, l))
      => ReadAt(fluxm_sum, <<c, l>>) = ExpectedMoment(l)

\* ------------------------------------------------ one CTA: fixup arithmetic
\* Values of type double are exact rationals <<numerator, denominator>> with
\* a positive denominator; the inputs are integers.  Every thread handles one
\* angle (THR_ANGLES = 1), and mu * hi, eta * hj and xi * hk are 1.

\* The flux components: x, y, z, and time in the time-dependent variant.
FluxAxes == IF cell.vdelt # 0 THEN 1 .. 4 ELSE 1 .. 3

\* device_mu[...] * hi, device_eta[...] * hj, device_xi[...] * hk; vdelt.
Coef(axis) == IF axis = 4 THEN cell.vdelt ELSE 1

\* psii, psij, psik, time_flux_in of the angle of thread t.
Incoming(t, axis) == profile[t].in[axis]

\* The sum of f[axis] over the flux components.
OverAxes(f) == SumOver(f, FluxAxes)

\* The denominator of dinv of thread t (its numerator is 1): 0 in the profile
\* stands for the dinv that matches t_xs and the coefficients.
DinvDen(t) ==
  IF profile[t].dinv = 0
    THEN cell.t_xs + OverAxes([axis \in FluxAxes |-> Coef(axis)])
    ELSE profile[t].dinv

\* Lines 250-371: pc = (psi + psii*mu*hi + psij*eta*hj + psik*xi*hk
\*                      + vdelt*time_flux_in) * dinv.
Pc0(t) ==
  <<profile[t].psi + OverAxes([axis \in FluxAxes |-> Incoming(t, axis) * Coef(axis)]),
    DinvDen(t)>>

\* pc and the hv flags of thread t at the start of a pass of warp w.
PcNow(w, t) == IF iter[w] = 0 THEN Pc0(t) ELSE pc[t]
HvNow(w, t) == IF iter[w] = 0 THEN <<1, 1, 1, 1>> ELSE hv[t]

\* The numerator of fx_hv = 2.0 * pc - incoming over the denominator of pc.
TrialNum(p, in) == 2 * p[1] - in * p[2]

\* Lines 393-423: the components whose trial flux is negative.
NegativeAxes(t, p) == {axis \in FluxAxes : TrialNum(p, Incoming(t, axis)) < 0}

\* The flags if no pass ever cleared one.
HvKept(h, t, p) == h

\* The flags if every pass set them from the signs of its trial fluxes alone.
HvFollows(h, t, p) == [axis \in 1 .. 4 |-> IF axis \in NegativeAxes(t, p) THEN 0 ELSE 1]

\* Lines 393-423: the flag of every negative trial flux is set to 0.
HvAfter(h, t, p) == [axis \in 1 .. 4 |-> IF axis \in NegativeAxes(t, p) THEN 0 ELSE h[axis]]

\* (mutation of BelowTolr: the denominator is never taken to be too small)
BelowTolrNever(den) == FALSE

\* den < tolr with tolr = 1.0e-12: den is an integer here.
BelowTolr(den) == den <= 0

\* Lines 445-449: twice the new numerator psi + 0.5 * (psii * mu * hi * (1.0 +
\* hv_x) + ... + time_flux_in * vdelt * (1.0 + hv_t)).
RecomputeNum(t, h) ==
  2 * profile[t].psi
  + OverAxes([axis \in FluxAxes |-> Incoming(t, axis) * Coef(axis) * (1 + h[axis])])

\* Lines 450-454: t_xs + mu * hi * hv_x + eta * hj * hv_y + xi * hk * hv_z +
\* vdelt * hv_t.
RecomputeSum(t, h) == cell.t_xs + OverAxes([axis \in FluxAxes |-> Coef(axis) * h[axis]])

\* Lines 443-459: pc recomputed from the flags h.
Recompute(t, h) ==
  LET num2 == RecomputeNum(t, h)
      den == IF num2 <= 0 THEN 0 ELSE RecomputeSum(t, h)
  IN IF BelowTolr(den) THEN <<0, 1>> ELSE <<num2, 2 * den>>

\* The outgoing flux of one component if it were stored without its flag.
OutgoingTrial(p, h, in) == <<TrialNum(p, in), p[2]>>

\* Lines 461-476: psii = fx_hv_x * hv_x, and so on for y, z and time.
Outgoing(p, h, in) == <<TrialNum(p, in) * h, p[2]>>

\* Lines 461-507: the values thread t stores: the x value it carries to the
\* next cell or writes to the x ghost-out buffer, the y and z values it
\* writes to the pencil, the plane or a ghost-out buffer, and time_flux_out.
StoredBy(t) ==
  [axis \in FluxAxes |-> Outgoing(pc[t], hv[t][axis], Incoming(t, axis))]

ThreadsOf(w) == {Tid(w, laneid) : laneid \in ActiveLanes(w)}

\* Lines 390-431 with the counts of lines 393-423: one pass of a warp.
FixupCount(w) ==
  /\ rpc[w] = "count"
  /\ iter[w] < MaxPasses
  /\ LET own == [laneid \in Lanes |->
                   Cardinality(NegativeAxes(Tid(w, laneid), PcNow(w, Tid(w, laneid))))]
         keys == {<<rcell[w], iter[w] + 1, t>> : t \in ThreadsOf(w)}
     IN /\ counted' = WriteAll(counted, [k \in keys |-> own[k[3] % WarpSize]])
        /\ \E g \in Undefined(w) :
             negative_fluxes' =
               SetLanes(negative_fluxes, w, WarpReduce(own, ActiveLanes(w), g))
  /\ pc' = [t \in Threads |-> IF t \in ThreadsOf(w) THEN PcNow(w, t) ELSE pc[t]]
  /\ hv' = [t \in Threads |->
              IF t \in ThreadsOf(w) THEN HvAfter(HvNow(w, t), t, PcNow(w, t)) ELSE hv[t]]
  /\ int_trampoline' = Zeroed(int_trampoline, w)
  /\ iter' = [iter EXCEPT ![w] = @ + 1]
  /\ nf_of' = [nf_of EXCEPT ![w] = 0]
  /\ rpc' = [rpc EXCEPT ![w] = "bar_count"]
  /\ UNCHANGED <<kernel, rcell, rl, old_negative_fluxes, sumVars, cell, profile, stored,
                 poolVars, sweepVars, addVars, hostVars,
                 lane_chunk>>

\* Lines 435-507: the reduced count is read and compared; equal ends the
\* loop and the thread stores its outgoing fluxes, different recomputes pc.
FixupRead(w) ==
  /\ rpc[w] = "cread"
  /\ \E g \in Undefined(w) :
       LET red == WarpReduce(int_trampoline, ActiveLanes(w), g)
           same == {laneid \in ActiveLanes(w) :
                      red[laneid] = old_negative_fluxes[Tid(w, laneid)]}
       IN /\ negative_fluxes' = SetLanes(negative_fluxes, w, red)
          /\ nf_of' = [nf_of EXCEPT ![w] = iter[w]]
          /\ IF same = ActiveLanes(w)
               THEN /\ rpc' = [rpc EXCEPT ![w] = "sum"]
                    /\ stored' = [t \in Threads |->
                                    IF t \in ThreadsOf(w) THEN StoredBy(t) ELSE stored[t]]
                    /\ UNCHANGED <<old_negative_fluxes, pc>>
               ELSE IF same = {}
                 THEN /\ rpc' = [rpc EXCEPT ![w] = "count"]
                      /\ old_negative_fluxes' = SetLanes(old_negative_fluxes, w, red)
                      /\ pc' = [t \in Threads |->
                                  IF t \in ThreadsOf(w) THEN Recompute(t, hv[t]) ELSE pc[t]]
                      /\ UNCHANGED stored
                 ELSE /\ rpc' = [rpc EXCEPT ![w] = "diverged"]
                      /\ UNCHANGED <<old_negative_fluxes, pc, stored>>
  /\ UNCHANGED <<kernel, rcell, rl, iter, counted, int_trampoline, sumVars, cell, profile,
                 hv, poolVars, sweepVars, addVars, hostVars,
                 lane_chunk>>

\* Source, incoming fluxes (x, y, z, time) and dinv of one angle.
QuietProfile == [psi |-> 1, in |-> <<0, 0, 0, 0>>, dinv |-> 0]
Profiles ==
  { QuietProfile,
    [psi |-> 0, in |-> <<9, 16, 10, 0>>, dinv |-> 0],
    [psi |-> 0, in |-> <<9, 16, 10, 0>>, dinv |-> 1],
    [psi |-> 0, in |-> <<9, 16, 10, 0>>, dinv |-> 35],
    [psi |-> 0, in |-> <<0 - 1, 0 - 1, 0 - 1, 0 - 1>>, dinv |-> 1],
    [psi |-> 0 - 9, in |-> <<1, 2, 5, 9>>, dinv |-> 2] }

CellInputs == [t_xs : {0, 4}, vdelt : {0, 1}]

\* CTAs of one or two whole warps.
FixupDims == {WarpSize, 2 * WarpSize}
FixupKernels == {k \in FixKernels : k.num_moments = 1}

\* A CTA of a kernel with fixup at its first cell: lane 0 of every warp has a
\* profile of its own, all other lanes need no correction.
InitFixup ==
  /\ CtaStart(FixupDims, FixupKernels)
  /\ cell \in CellInputs
  /\ \E first \in [ActiveWarps -> Profiles], rest \in {QuietProfile} :
       profile = [t \in Threads |->
                    IF t >= blockDim THEN NoProfile
                    ELSE IF t % WarpSize = 0 THEN first[t \div WarpSize] ELSE rest]
  /\ pc = [t \in Threads |-> <<0, 1>>]
  /\ hv = [t \in Threads |-> <<1, 1, 1, 1>>]
  /\ stored = [t \in Threads |-> NoValue]

NextFixup ==
  \/ SyncThreads
  \/ \E w \in Warps :
       FixupCount(w) \/ FixStage(w) \/ FixupRead(w) \/ Sum(w) \/ SumStage(w) \/ SumFinal(w)

SpecFixup == InitFixup /\ [][NextFixup]_vars

\* The passes of the fixup loop of its current cell a warp has begun.
Passes(w) == iter[w]
\* Warp w has left the fixup loop of its current cell.
LoopDone(w) == iter[w] > 0 /\ rpc[w] \notin {"count", "bar_count", "cstage", "bar_cstage", "cread", "diverged"}

\* No warp has begun more passes of the fixup loop of its cell than there are
\* flux components (4 time-dependent, 3 time-independent).
FixupBound == \A w \in ActiveWarps : Passes(w) <= Cardinality(FluxAxes)

\* Every thread of the CTA has counted in pass k of cell c.
PassCounted(c, k) == \A t \in 0 .. (blockDim - 1) : <<c, k, t>> \in DOMAIN counted

\* C12: the combined number of negative trial fluxes counted in a pass is
\* never larger than the number counted in the pass before.
CountMonotone ==
  \A c \in Cells : \A k \in 2 .. MaxPasses :
    PassCounted(c, k) => CountTotal(c, k) <= CountTotal(c, k - 1)

\* C13: every outgoing edge flux a thread stores in a kernel with fixup is
\* greater than or equal to zero.
StoredNonNegative ==
  \A t \in Threads :
    stored[t] # NoValue => \A axis \in FluxAxes : stored[t][axis][1] >= 0

\* Some thread of the CTA has stored outgoing fluxes of which one had a
\* negative trial value, for an angle with a negative incoming flux.
StoredAfterFixup ==
  \E t \in Threads :
    /\ stored[t] # NoValue
    /\ \E axis \in FluxAxes : hv[t][axis] = 0 /\ stored[t][axis][1] = 0
    /\ \E axis \in FluxAxes : Incoming(t, axis) < 0

\* C14: when the fixup loop of a cell has ended, every flag is 0 or 1, and
\* for every component whose flag is 0 the trial flux 2 * pc - incoming of
\* the final pc is not negative.
StopInvariant ==
  \A w \in ActiveWarps : LoopDone(w) =>
    \A t \in ThreadsOf(w) : \A axis \in FluxAxes :
      /\ hv[t][axis] \in {0, 1}
      /\ hv[t][axis] = 0 => TrialNum(pc[t], Incoming(t, axis)) >= 0

\* C14, amended: when the fixup loop of a cell has ended, every flag is 0 or
\* 1, and for every component whose flag is still 1 the trial flux
\* 2 * pc - incoming of the final pc is not negative.
StopFlagged ==
  \A w \in ActiveWarps : LoopDone(w) =>
    \A t \in ThreadsOf(w) : \A axis \in FluxAxes :
      /\ hv[t][axis] \in {0, 1}
      /\ hv[t][axis] = 1 => TrialNum(pc[t], Incoming(t, axis)) >= 0

\* A warp has left the loop with a cleared flag whose trial flux is negative
\* for the final pc, and another flag still set.
StoppedWithNegative ==
  \E w \in ActiveWarps : LoopDone(w) /\ \E t \in ThreadsOf(w) :
    /\ \E axis \in FluxAxes :
         hv[t][axis] = 0 /\ TrialNum(pc[t], Incoming(t, axis)) < 0
    /\ \E axis \in FluxAxes : hv[t][axis] = 1

\* C12, amended: within the fixup loop of one cell a flag that is 0 stays 0,
\* so the number of cleared flags never decreases from one pass to the next.
FlagsMonotone ==
  [][\A w \in ActiveWarps :
       (iter[w] > 0 /\ iter'[w] > iter[w]) =>
         \A t \in ThreadsOf(w) : \A axis \in FluxAxes :
           hv[t][axis] = 0 => hv'[t][axis] = 0]_vars

\* In the second pass of a cell the threads have counted more negative trial
\* fluxes than in the first, and a flag cleared in the first pass is still 0.
CountGrew ==
  \E c \in Cells :
    /\ PassCounted(c, 2)
    /\ CountTotal(c, 2) > CountTotal(c, 1)
    /\ \E w \in ActiveWarps :
         rcell[w] = c /\ iter[w] = 2 /\ \E t \in ThreadsOf(w) : \E axis \in FluxAxes :
           hv[t][axis] = 0

\* Some warp waits at a barrier that another warp, which has ended or split
\* up, never reaches.
Hung ==
  /\ \A w \in ActiveWarps : rpc[w] \in Bars \cup {"end", "diverged"}
  /\ \E w \in ActiveWarps : rpc[w] \in Bars
  /\ \E w \in ActiveWarps : rpc[w] \notin Bars

\* C11: the fixup loop of every cell terminates, no warp waiting in it for
\* ever, after at most as many iterations as there are flux components (4
\* time-dependent, 3 time-independent).
FixupTermination == FixupBound /\ ~ Hung

\* ---------------------------------------------------------- write-back
\* The entries of arr that the step has stored to.
Changed(arr, arr2) ==
  {k \in (DOMAIN arr) \cup (DOMAIN arr2) : ReadAt(arr, k) # ReadAt(arr2, k)}

\* The offset of the cell and the extent of the chunk along an axis.
OffsetOn(xyz, axis) == CASE axis = "x" -> xyz[1] [] axis = "y" -> xyz[2] [] axis = "z" -> xyz[3]
RangeOn(c, axis) == CASE axis = "x" -> c.xr [] axis = "y" -> c.yr [] axis = "z" -> c.zr

\* C15: for each axis the ghost-out buffer is written for a cell if and only
\* if the offset of the cell on that axis is range - 1; for every other cell
\* the y flux goes to the pencil entry [x] and the z flux to the plane entry
\* [y][x] of the slot of the unit and nothing else of the scratch is written;
\* no ghost-in buffer is ever written.
WriteBackRouting ==
  [][\A u \in Units :
       (upc[u] = "run" /\ trail'[u] = Append(trail[u], LocalPoint(cfg[u], pos[u]))) =>
         LET c == cfg[u]
             xyz == pos[u]
             lp == LocalPoint(c, xyz)
             s == cta_chunk[u]
             mine == AnglesOf(c)
             stores == Changed(ghost, ghost')
         IN /\ \A axis \in Axes :
                 {k \in stores : k[3] = axis} =
                   IF OffsetOn(xyz, axis) = RangeOn(c, axis) - 1
                     THEN {<<u, "out", axis, lp, a>> : a \in mine}
                     ELSE {}
            /\ Changed(yflux_pencils, yflux_pencils') =
                 IF xyz[2] = c.yr - 1 THEN {}
                 ELSE {<<s, xyz[1], a>> : a \in mine}
            /\ Changed(zflux_planes, zflux_planes') =
                 IF xyz[3] = c.zr - 1 THEN {}
                 ELSE {<<s, xyz[2], xyz[1], a>> : a \in mine}
            /\ \A k \in DOMAIN ghost' : k[2] = "out"]_vars

\* A unit in the middle of a chunk of several cells along every axis has
\* written a ghost-out buffer, a pencil entry and a plane entry.
RoutedBothWays ==
  \E u \in Units :
    /\ upc[u] = "run"
    /\ cfg[u].xr > 1 /\ cfg[u].yr > 1 /\ cfg[u].zr > 1
    /\ \E k \in DOMAIN ghost : k[1] = u /\ k[3] = "x"
    /\ \E k \in DOMAIN yflux_pencils : k[1] = cta_chunk[u]
    /\ \E k \in DOMAIN zflux_planes : k[1] = cta_chunk[u]

\* The position of yflux_pencils[s][x][a] in
\* double yflux_pencils[MAX_CTA][MAX_X_CHUNK][MAX_ANGLES], in doubles.
PencilAddress(s, x, a) == (s * MAX_X_CHUNK + x) * MAX_ANGLES + a

\* The position of zflux_planes[s][y][x][a] in
\* double zflux_planes[MAX_CTA][MAX_Y_CHUNK][MAX_Y_CHUNK][MAX_ANGLES].
PlaneAddress(s, y, x, a) == ((s * MAX_Y_CHUNK + y) * MAX_Y_CHUNK + x) * MAX_ANGLES + a

\* The slot whose pencil or plane holds the entry access e touches.
SlotTouched(e) ==
  IF e[1] = "yflux_pencils"
    THEN PencilAddress(e[3][1], e[3][2], e[3][3]) \div (MAX_X_CHUNK * MAX_ANGLES)
    ELSE PlaneAddress(e[3][1], e[3][2], e[3][3], e[3][4])
           \div (MAX_Y_CHUNK * MAX_Y_CHUNK * MAX_ANGLES)

\* The scratch entries a step stores a new value into.
ScratchStores ==
  {<<"yflux_pencils", k>> : k \in Changed(yflux_pencils, yflux_pencils')}
    \cup {<<"zflux_planes", k>> : k \in Changed(zflux_planes, zflux_planes')}

\* C32: every read and write of yflux_pencils and zflux_planes by a compute
\* unit is at the slot index the unit acquired: the accesses of a running
\* kernel all carry its cta_chunk, which is a slot of the pool, the entry
\* each of them touches lies in the pencil or plane of that slot, and every
\* store into the scratch is one of the writes of the unit that takes the
\* step, at its own slot.
ScratchIsolation ==
  /\ [](\A u \in Units : \A e \in scratch_log[u] :
          /\ Holds(u)
          /\ cta_chunk[u] \in Slots
          /\ e[3][1] = cta_chunk[u]
          /\ SlotTouched(e) = cta_chunk[u])
  /\ [][\A e \in ScratchStores :
          \E u \in Units :
            /\ upc[u] = "run" /\ pos'[u] # pos[u]
            /\ e[2][1] = cta_chunk[u]
            /\ <<e[1], "write", e[2]>> \in scratch_log'[u]]_vars

\* Two units hold different slots at the same time: one has written and read
\* the last row of the pencil of its slot, the other has read and written
\* the pencil and the plane of its slot.
BothSlotsInUse ==
  \E u \in Units, v \in Units :
    /\ Holds(u) /\ Holds(v) /\ cta_chunk[u] # cta_chunk[v]
    /\ \A op \in {"read", "write"} :
         <<"yflux_pencils", op, <<cta_chunk[u], MAX_X_CHUNK - 1, blockDim - 1>>>>
           \in scratch_log[u]
    /\ \A b \in {"yflux_pencils", "zflux_planes"} : \A op \in {"read", "write"} :
         \E e \in scratch_log[v] : e[1] = b /\ e[2] = op /\ e[3][1] = cta_chunk[v]

\* The adders other than a whose compare-and-swap has succeeded.
Succeeded(a) == {b \in Adders \ {a} : apc[b] = "done"}

\* C34: with finitely many adders on one cell and fair scheduling every call
\* of atomicAdd returns, and failed compare-and-swaps are paid for by
\* successful ones: an adder has never failed more often than other adders
\* have succeeded, and when its compare-and-swap fails the cell no longer
\* holds the value it assumed and another adder has completed its update.
AtomicAddProgress ==
  /\ \A a \in Adders : <>(apc[a] = "done")
  /\ [](\A a \in Adders : a_fails[a] <= Cardinality(Succeeded(a)))
  /\ [][\A a \in Adders :
          a_fails'[a] > a_fails[a] =>
            /\ flux_cell # a_old[a]
            /\ flux_cell' = flux_cell
            /\ Succeeded(a) # {}]_vars

\* Every call has returned, one of them after as many failed
\* compare-and-swaps as there are other adders.
FailedForEveryOther ==
  /\ \A a \in Adders : apc[a] = "done"
  /\ \E a \in Adders : a_fails[a] = NumAdders - 1

\* C33: every entry of available_chunks is 0 or 1, and as many entries are 0
\* as there are compute units holding a slot (from the successful atomicDec
\* until the last lane has executed the release): no slot is unavailable
\* without a holder.
PoolConservation ==
  /\ \A s \in Slots : available_chunks[s] \in {0, 1}
  /\ Cardinality({s \in Slots : available_chunks[s] = 0})
       = Cardinality({u \in Units : Holds(u)})
  /\ \A s \in Slots :
       available_chunks[s] = 0 => \E u \in Units : Holds(u) /\ cta_chunk[u] = s

\* ------------------------------------------------------------ run_gpu_sweep
\* angles_per_thread if the quotient were rounded down.
AnglesRoundedDown(n) == n \div max_threads_per_cta

\* (num_angles + max_threads_per_cta - 1) / max_threads_per_cta
AnglesPerThread(n) == (n + max_threads_per_cta - 1) \div max_threads_per_cta

\* The time-dependent test if it looked at the sign of vdelt.
TimeDependentPositive(vdelt) == vdelt > 0

\* vdelt != 0.0
TimeDependent(vdelt) == vdelt # 0

\* The kernel the if statements of lines 1762-1916 reach.
KernelName(fixup, vdelt) ==
  IF fixup
    THEN IF TimeDependent(vdelt) THEN "gpu_time_dependent_sweep_with_fixup"
         ELSE "gpu_time_independent_sweep_with_fixup"
    ELSE IF TimeDependent(vdelt) THEN "gpu_time_dependent_sweep_without_fixup"
         ELSE "gpu_time_independent_sweep_without_fixup"

\* Lines 1751-1757: angles_per_thread and the assertion that it divides
\* num_angles. With angles_per_thread = 0 the remainder is undefined: the
\* division traps, or yields some value.
ComputeAngles ==
  /\ host_pc = "angles"
  /\ LET apt == AnglesPerThread(args.num_angles)
     IN /\ angles_per_thread' = apt
        /\ IF apt = 0
             THEN \/ host_pc' = "aborted"
                  \/ \E r \in Garbage : host_pc' = IF r = 0 THEN "threads" ELSE "aborted"
             ELSE host_pc' = IF args.num_angles % apt = 0 THEN "threads" ELSE "aborted"
  /\ UNCHANGED <<args, threads_per_cta, launches, device_tables>>
  /\ UNCHANGED <<poolVars, sweepVars, addVars, ctaVars>>

\* Lines 1758-1761: threads_per_cta, block and grid; a division by 0 traps
\* or yields some value.
ComputeThreads ==
  /\ host_pc = "threads"
  /\ IF angles_per_thread = 0
       THEN \/ host_pc' = "aborted" /\ UNCHANGED threads_per_cta
            \/ \E q \in Garbage : threads_per_cta' = q /\ host_pc' = "select"
       ELSE /\ threads_per_cta' = args.num_angles \div angles_per_thread
            /\ host_pc' = "select"
  /\ UNCHANGED <<args, angles_per_thread, launches, device_tables>>
  /\ UNCHANGED <<poolVars, sweepVars, addVars, ctaVars>>

\* Lines 1762-1916: the kernel is chosen by fixup and vdelt, its template
\* argument by the switch on angles_per_thread; the default case aborts.
SelectKernel ==
  /\ host_pc = "select"
  /\ IF angles_per_thread \in {1, 2}
       THEN /\ launches' = Append(launches,
                 [kernel |-> KernelName(args.fixup, args.vdelt),
                  THR_ANGLES |-> angles_per_thread,
                  grid |-> 1,
                  block |-> threads_per_cta])
            /\ host_pc' = "returned"
       ELSE /\ host_pc' = "aborted"
            /\ UNCHANGED launches
  /\ UNCHANGED <<args, angles_per_thread, threads_per_cta, device_tables>>
  /\ UNCHANGED <<poolVars, sweepVars, addVars, ctaVars>>

\* The arguments of run_gpu_sweep that decide the launch.
SweepArgs ==
  [num_angles : 0 .. MaxNumAngles, fixup : BOOLEAN, vdelt : {0 - 1, 0, 1}]

InitDispatch ==
  /\ PoolStart({1})
  /\ available_chunks = [s \in Slots |-> 1]
  /\ AddIdle
  /\ CtaIdle
  /\ host_pc = "angles"
  /\ args \in SweepArgs
  /\ angles_per_thread = 0
  /\ threads_per_cta = 0
  /\ launches = << >>
  /\ device_tables = NoTables

NextDispatch == ComputeAngles \/ ComputeThreads \/ SelectKernel

SpecDispatch == InitDispatch /\ [][NextDispatch]_vars

\* The least k with k * max_threads_per_cta >= n.
Ceiling(n) ==
  CHOOSE k \in 0 .. n : k * max_threads_per_cta >= n /\ (k = 0 \/ (k - 1) * max_threads_per_cta < n)

\* run_gpu_sweep accepts n angles: the ceiling is 1 or 2 and divides n.
Accepted(n) == Ceiling(n) \in {1, 2} /\ n % Ceiling(n) = 0

\* C16: with angles-per-lane the ceiling of num_angles / 1024, run_gpu_sweep
\* aborts without a launch when that value does not divide num_angles or is
\* neither 1 nor 2, and otherwise launches exactly one kernel with
\* num_angles / angles-per-lane lanes and that value as its specialization.
DispatcherRejection ==
  /\ Len(launches) <= 1
  /\ host_pc = "aborted" => launches = << >> /\ ~ Accepted(args.num_angles)
  /\ host_pc \in {"angles", "threads", "select"} => launches = << >>
  /\ host_pc = "returned" =>
       /\ Accepted(args.num_angles)
       /\ Len(launches) = 1
       /\ launches[1].THR_ANGLES = Ceiling(args.num_angles)
       /\ launches[1].block = args.num_angles \div Ceiling(args.num_angles)
       /\ launches[1].grid = 1

\* run_gpu_sweep has returned after launching a kernel with two angles per
\* lane.
LaunchedTwoPerLane ==
  /\ host_pc = "returned"
  /\ args.num_angles > max_threads_per_cta
  /\ Len(launches) = 1 /\ launches[1].THR_ANGLES = 2

\* C17: every kernel run_gpu_sweep launches is the variant with fixup exactly
\* when fixup is true and the time-dependent one exactly when vdelt is not 0,
\* and it launches no second one.
VariantSelection ==
  \A i \in 1 .. Len(launches) :
    /\ i = 1
    /\ launches[i].kernel =
         CASE args.fixup /\ args.vdelt # 0 -> "gpu_time_dependent_sweep_with_fixup"
           [] args.fixup /\ args.vdelt = 0 -> "gpu_time_independent_sweep_with_fixup"
           [] ~ args.fixup /\ args.vdelt # 0 -> "gpu_time_dependent_sweep_without_fixup"
           [] ~ args.fixup /\ args.vdelt = 0 -> "gpu_time_independent_sweep_without_fixup"

\* run_gpu_sweep has launched the time-dependent kernel with fixup for a
\* negative vdelt.
LaunchedVariant ==
  /\ host_pc = "returned"
  /\ args.fixup /\ args.vdelt < 0
  /\ Len(launches) = 1

\* The pairs (per-lane slot, lane) of the CTA of launch l: ang runs over
\* 0 .. THR_ANGLES-1 in every loop of the kernel, threadIdx.x over the block.
LanePairs(l) == (0 .. (l.THR_ANGLES - 1)) \X (0 .. (l.block - 1))

\* The angle indices the lanes of launch l address.
LaunchAngles(l) == { AngleOffset(p[1], p[2], l.block) : p \in LanePairs(l) }

\* const int num_angles = THR_ANGLES * blockDim.x (line 177).
DerivedAngles(l) == l.THR_ANGLES * l.block

\* C31: for every launch run_gpu_sweep makes, the pairs (lane, per-lane slot)
\* map through slot * lanes + lane onto 0 .. num_angles-1 with no index hit
\* twice, the angle count the kernel derives is num_angles, and the block has
\* at least one and at most 1024 lanes.
AnglePartition ==
  \A i \in 1 .. Len(launches) :
    LET l == launches[i]
    IN /\ LaunchAngles(l) = 0 .. (args.num_angles - 1)
       /\ Cardinality(LaunchAngles(l)) = Cardinality(LanePairs(l))
       /\ DerivedAngles(l) = args.num_angles
       /\ l.block >= 1 /\ l.block <= 1024

\* run_gpu_sweep has launched a full block of 1024 lanes with two angles each.
FullBlockTwoSlots ==
  /\ host_pc = "returned"
  /\ Len(launches) = 1
  /\ launches[1].block = 1024 /\ launches[1].THR_ANGLES = 2
  /\ LaunchAngles(launches[1]) = 0 .. 2047

\* --------------------------------------------------- initialize_gpu_context
\* The capacity test if a value equal to the maximum were refused as well.
ExceedsOrEqual(v, max) == v >= max

\* if (num_angles > MAX_ANGLES) printf(...); assert(num_angles <= MAX_ANGLES);
Exceeds(v, max) == v > max

\* Entry i of the host array ec_h, mu_h, eta_h, xi_h or w_h of the call.
Supplied(a, name, i) ==
  a.seed + i + (CASE name = "ec" -> 0 [] name = "mu" -> 1 [] name = "eta" -> 2
                  [] name = "xi" -> 3 [] name = "w" -> 4)

\* The number of doubles the call copies into a table.
CopyCount(a, name) ==
  IF name = "ec" THEN a.num_angles * a.num_moments * a.num_octants ELSE a.num_angles

\* The copy if it left out the last entry.
MemcpyShort(sym, src, count) ==
  [i \in DOMAIN sym |-> IF i < count - 1 THEN src[i] ELSE sym[i]]

\* cudaMemcpyToSymbol(sym, src, count * sizeof(double)): the first count
\* entries are copied; a count beyond the symbol is an error and copies
\* nothing.
MemcpyToSymbol(sym, src, count) ==
  IF count > Cardinality(DOMAIN sym) THEN sym
  ELSE [i \in DOMAIN sym |-> IF i < count THEN src[i] ELSE sym[i]]

\* One of the three checks of lines 56-65: the call goes on to next or aborts.
Check(at, v, max, next) ==
  /\ host_pc = at
  /\ host_pc' = IF Exceeds(v, max) THEN "aborted" ELSE next
  /\ UNCHANGED <<args, angles_per_thread, threads_per_cta, launches, device_tables>>
  /\ UNCHANGED <<poolVars, sweepVars, addVars, ctaVars>>

CheckAngles == Check("check_angles", args.num_angles, MAX_ANGLES, "check_x")
CheckX == Check("check_x", args.nx_per_chunk, MAX_X_CHUNK, "check_y")
CheckY == Check("check_y", args.ny_per_chunk, MAX_Y_CHUNK, "copy_available")

\* Lines 67-71: available[i] = 1 for every i, copied to available_chunks.
CopyAvailable ==
  /\ host_pc = "copy_available"
  /\ available_chunks' = [s \in Slots |-> 1]
  /\ host_pc' = "copy_tables"
  /\ UNCHANGED <<blockDim, upc, cfg, smid, scan, spun, cta_chunk, released, probes>>
  /\ UNCHANGED <<args, angles_per_thread, threads_per_cta, launches, device_tables>>
  /\ UNCHANGED <<sweepVars, addVars, ctaVars>>

\* Lines 72-77: the five tables are copied from the host arrays.
CopyTables ==
  /\ host_pc = "copy_tables"
  /\ device_tables' =
       [name \in TableNames |->
          MemcpyToSymbol(device_tables[name],
                         [i \in 0 .. (CopyCount(args, name) - 1) |-> Supplied(args, name, i)],
                         CopyCount(args, name))]
  /\ host_pc' = "ready"
  /\ UNCHANGED <<args, angles_per_thread, threads_per_cta, launches>>
  /\ UNCHANGED <<poolVars, sweepVars, addVars, ctaVars>>

\* A sweep kernel is launched once the context is initialized.
HostLaunch == host_pc = "ready" /\ Launch(1, PoolCfgs, SMs, 1)

\* The arguments of initialize_gpu_context: values up to one above each
\* maximum, as many moments and octants as device_ec has room for.
ContextArgs ==
  [num_angles : 0 .. (MAX_ANGLES + 1), num_moments : 1 .. MaxMoments,
   num_octants : {NumOctants}, nx_per_chunk : 1 .. (MAX_X_CHUNK + 1),
   ny_per_chunk : 1 .. (MAX_Y_CHUNK + 1), seed : {1, 2}]

InitContext ==
  /\ PoolStart({1})
  /\ available_chunks = [s \in Slots |-> 0]
  /\ AddIdle
  /\ CtaIdle
  /\ host_pc = "check_angles"
  /\ args \in ContextArgs
  /\ angles_per_thread = 0
  /\ threads_per_cta = 0
  /\ launches = << >>
  /\ device_tables = NoTables

NextContext ==
  \/ CheckAngles \/ CheckX \/ CheckY \/ CopyAvailable \/ CopyTables
  \/ HostLaunch \/ UnitStep(1)

SpecContext == InitContext /\ [][NextContext]_vars

\* Some argument of the call is above its compiled maximum.
OverCapacity ==
  \/ args.num_angles > MAX_ANGLES
  \/ args.nx_per_chunk > MAX_X_CHUNK
  \/ args.ny_per_chunk > MAX_Y_CHUNK

\* C18: initialize_gpu_context aborts when num_angles, the x extent or the y
\* extent of a chunk is above its maximum, having modified neither
\* available_chunks nor any table, and does not abort otherwise.
CapacityCheck ==
  /\ host_pc = "aborted" =>
       /\ OverCapacity
       /\ available_chunks = [s \in Slots |-> 0]
       /\ device_tables = NoTables
  /\ OverCapacity => host_pc \in {"check_angles", "check_x", "check_y", "aborted"}

\* The call has aborted at the last check, for a y extent one above the
\* maximum with num_angles and the x extent at their maxima.
AbortedOnY ==
  /\ host_pc = "aborted"
  /\ args.num_angles = MAX_ANGLES /\ args.nx_per_chunk = MAX_X_CHUNK
  /\ args.ny_per_chunk = MAX_Y_CHUNK + 1

\* The tables hold what the call supplied.
TablesAsSupplied ==
  \A name \in TableNames : \A i \in 0 .. (CopyCount(args, name) - 1) :
    device_tables[name][i] = Supplied(args, name, i)

\* C19: after a successful initialize_gpu_context every slot of the pool is
\* available (1) and the tables equal the supplied arrays; no sweep kernel
\* writes the tables afterwards.
InitializedState ==
  /\ (host_pc = "ready" /\ \A u \in Units : upc[u] = "idle") =>
        \A s \in Slots : available_chunks[s] = 1
  /\ host_pc = "ready" => TablesAsSupplied

\* A kernel has run to its end after an initialization with as many angles
\* as the tables hold.
SweptAfterInit ==
  /\ host_pc = "ready"
  /\ args.num_angles = MAX_ANGLES
  /\ upc[1] = "done"

\* ----------------------------------- one sweep without fixup, with numbers
\* The weights of the sweep: even, so that weight * pc is a whole number for
\* the dinv of 1/2.
ScenarioW(a) == 2 * device_w(a)

\* Lines 1461-1597 with qtot 1, one moment, no MMS source and dinv 1/2:
\* pc = (psi + psii*mu*hi + psij*eta*hj + psik*xi*hk) * dinv.
ScenarioPc(inx, iny, inz) ==
  <<1 + inx * args.mu_hi + iny * args.eta_hj + inz * args.xi_hk, 2>>

\* Lines 1599-1608: psii = 2.0 * pc - psii.
OutgoingNoFixup(p, in) == TrialNum(p, in) \div p[2]

\* The body of the cell loops of gpu_time_independent_sweep_without_fixup
\* for a CTA of one warp: incoming fluxes, pc, outgoing fluxes and their
\* write-back, and the reduction of weight * pc into the scalar flux of the
\* cell (lines 1642-1674), whose shuffles read undefined values when the
\* warp has lanes without a thread.
ScenarioCell ==
  /\ upc[1] = "run"
  /\ LET c == cfg[1]
         xyz == pos[1]
         x == xyz[1]
         y == xyz[2]
         z == xyz[3]
         s == ScratchSlot(1)
         lp == LocalPoint(c, xyz)
         mine == AnglesOf(c)
         inx == [a \in mine |-> IF x = 0 THEN 0 ELSE psii[1][a]]
         iny == [a \in mine |-> IF y = 0 THEN 0 ELSE yflux_pencils[<<s, x, a>>]]
         inz == [a \in mine |-> IF z = 0 THEN 0 ELSE zflux_planes[<<s, y, x, a>>]]
         p == [a \in mine |-> ScenarioPc(inx[a], iny[a], inz[a])]
         outx == [a \in mine |-> OutgoingNoFixup(p[a], inx[a])]
         outy == [a \in mine |-> OutgoingNoFixup(p[a], iny[a])]
         outz == [a \in mine |-> OutgoingNoFixup(p[a], inz[a])]
         own == [laneid \in Lanes |->
                   IF laneid \in ActiveLanes(0)
                     THEN (ScenarioW(laneid) * p[laneid][1]) \div p[laneid][2]
                     ELSE 0]
         nxt == NextPos(c, xyz)
     IN /\ \E g1 \in Undefined(0), g2 \in Undefined(0) :
             LET red == WarpReduce(own, ActiveLanes(0), g1)
                 tramp == Staged(Zeroed(double_trampoline, 0), 0, red[0])
                 all == WarpReduce(tramp, ActiveLanes(0), g2)
             IN flux' = WriteAll(flux, [k \in {lp} |->
                                   (IF lp \in DOMAIN flux THEN flux[lp] ELSE 0) + all[0]])
        /\ incoming' = [incoming EXCEPT ![1] = [ax \in Axes |->
                          CASE ax = "x" -> inx [] ax = "y" -> iny [] ax = "z" -> inz]]
        /\ psii' = [psii EXCEPT ![1] = outx]
        /\ ghost' = WriteAll(WriteAll(WriteAll(ghost,
                      IF Outflow(x, c.xr)
                        THEN [k \in {<<1, "out", "x", lp, a>> : a \in mine} |-> outx[k[5]]]
                        ELSE Empty),
                      IF Outflow(y, c.yr)
                        THEN [k \in {<<1, "out", "y", lp, a>> : a \in mine} |-> outy[k[5]]]
                        ELSE Empty),
                      IF Outflow(z, c.zr)
                        THEN [k \in {<<1, "out", "z", lp, a>> : a \in mine} |-> outz[k[5]]]
                        ELSE Empty)
        /\ yflux_pencils' =
             IF Outflow(y, c.yr) THEN yflux_pencils
             ELSE WriteAll(yflux_pencils, [k \in {<<s, x, a>> : a \in mine} |-> outy[k[3]]])
        /\ zflux_planes' =
             IF Outflow(z, c.zr) THEN zflux_planes
             ELSE WriteAll(zflux_planes, [k \in {<<s, y, x, a>> : a \in mine} |-> outz[k[4]]])
        /\ time_flux' = Accessed(time_flux, TimeFluxAccess(1, c, lp, mine))
        /\ scratch_log' = [scratch_log EXCEPT ![1] = @ \cup ScratchAccess(1, c, x, y, z, mine)]
        /\ trail' = [trail EXCEPT ![1] = Append(@, lp)]
        /\ pos' = [pos EXCEPT ![1] = nxt]
        /\ upc' = [upc EXCEPT ![1] = IF nxt[3] < c.zr THEN "run" ELSE "release"]
  /\ UNCHANGED <<blockDim, available_chunks, cfg, smid, scan, spun, cta_chunk, released, probes>>
  /\ UNCHANGED <<addVars, ctaVars, hostVars>>

\* The chunks of the sweep: MaxRange cells along every axis, swept along or
\* against x.
ScenarioCfgs ==
  { [thr |-> 1, xr |-> MaxRange, yr |-> MaxRange, zr |-> MaxRange,
     sx |-> p, sy |-> TRUE, sz |-> TRUE, td |-> FALSE] : p \in BOOLEAN }

\* mu*hi, eta*hj and xi*hk of the sweep (the same for every angle): all 0,
\* or all 1.
ScenarioArgs ==
  { [num_angles |-> n, mu_hi |-> k, eta_hj |-> k, xi_hk |-> k] :
      n \in 1 .. WarpSize, k \in {0, 1} }

\* The kernel of a CTA of at most one warp holds slot 0 and is at the first
\* cell of its chunk.
InitScenario ==
  /\ PoolStart(1 .. WarpSize)
  /\ args \in ScenarioArgs
  /\ args.num_angles = blockDim
  /\ available_chunks = [s \in Slots |-> IF s = 0 THEN 0 ELSE 1]
  /\ AddIdle
  /\ CtaIdle
  /\ host_pc = "none"
  /\ angles_per_thread = 1
  /\ threads_per_cta = blockDim
  /\ launches = << >>
  /\ device_tables = NoTables

\* PoolStart leaves the unit idle: the launch puts it at its first cell.
ScenarioLaunch ==
  /\ upc[1] = "idle"
  /\ \E c \in ScenarioCfgs : cfg' = [cfg EXCEPT ![1] = c]
  /\ cta_chunk' = [cta_chunk EXCEPT ![1] = 0]
  /\ upc' = [upc EXCEPT ![1] = "run"]
  /\ UNCHANGED <<blockDim, available_chunks, smid, scan, spun, released, probes, sweepVars>>
  /\ UNCHANGED <<addVars, ctaVars, hostVars>>

NextScenario == ScenarioLaunch \/ ScenarioCell \/ ReleaseLane(1)

SpecScenario == InitScenario /\ [][NextScenario]_vars

\* The sum over the angles of the CTA of weight[angle] * 0.5.
HalfWeights == SumOver([a \in 0 .. (blockDim - 1) |-> ScenarioW(a) \div 2], 0 .. (blockDim - 1))

\* C20: with zero ghost-in fluxes, qtot 1 and dinv 0.5 in every cell, no
\* fixup and vdelt 0, what one sweep adds to the scalar flux is the same for
\* every cell of the chunk: the sum over the angles of weight[angle] * 0.5.
EndToEnd == \A k \in DOMAIN flux : flux[k] = HalfWeights

\* ------------------------------------------------- one cell without fixup
\* The outgoing flux if a negative value were replaced by 0.
OutgoingClamped(p, in) == <<IF TrialNum(p, in) < 0 THEN 0 ELSE TrialNum(p, in), p[2]>>

\* Lines 821-837, 1599-1608: psii = 2.0 * pc - psii, and the same for psij,
\* psik and time_flux_out.
OutgoingPlain(p, in) == <<TrialNum(p, in), p[2]>>

\* Lines 660-885, 1445-1657: a warp of a kernel without fixup computes pc and
\* the outgoing fluxes of its angles for the cell, stores them, and goes on
\* to the reduction of the scalar flux up to its first barrier.
NoFixupSum(w) ==
  /\ rpc[w] = "sum"
  /\ ~ kernel.fixup
  /\ pc' = [t \in Threads |-> IF t \in ThreadsOf(w) THEN Pc0(t) ELSE pc[t]]
  /\ stored' = [t \in Threads |->
                  IF t \in ThreadsOf(w)
                    THEN [axis \in FluxAxes |-> OutgoingPlain(Pc0(t), Incoming(t, axis))]
                    ELSE stored[t]]
  /\ \E g \in Undefined(w) :
       total' = SetLanes(total, w,
                  WarpReduce([laneid \in Lanes |-> OwnTotal(Tid(w, laneid))],
                             ActiveLanes(w), g))
  /\ double_trampoline' = Zeroed(double_trampoline, w)
  /\ rpc' = [rpc EXCEPT ![w] = "bar_sum"]
  /\ UNCHANGED <<kernel, rcell, rl, flux_sum, flux_adds, fluxm_sum, fluxm_adds, fixVars,
                 cell, profile, hv, poolVars, sweepVars, addVars, hostVars,
                 lane_chunk>>

NoFixupKernels ==
  {k \in Kernels({FALSE}) : k.thr = 1 /\ k.corner = 0 /\ k.seed = 0 /\ k.num_moments = 1}

\* A CTA of a kernel without fixup at its first cell; lane 0 of every warp
\* has a profile of its own.
InitNoFixup ==
  /\ CtaStart(FixupDims, NoFixupKernels)
  /\ cell \in CellInputs
  /\ \E first \in [ActiveWarps -> Profiles] :
       profile = [t \in Threads |->
                    IF t >= blockDim THEN NoProfile
                    ELSE IF t % WarpSize = 0 THEN first[t \div WarpSize] ELSE QuietProfile]
  /\ pc = [t \in Threads |-> <<0, 1>>]
  /\ hv = [t \in Threads |-> <<1, 1, 1, 1>>]
  /\ stored = [t \in Threads |-> NoValue]

NextNoFixup ==
  \/ SyncThreads
  \/ \E w \in Warps : NoFixupSum(w) \/ SumStage(w) \/ SumFinal(w)

SpecNoFixup == InitNoFixup /\ [][NextNoFixup]_vars

\* C21: in the kernels without fixup every outgoing edge flux a thread has
\* stored, on x, y, z and in the time-dependent kernel on the time axis, is
\* 2 * pc - incoming of that axis for the pc of the cell, computed without
\* iteration, and no count reduction has been executed.
NoFixupUpdate ==
  /\ \A t \in Threads : stored[t] # NoValue =>
       /\ pc[t] = Pc0(t)
       /\ \A axis \in FluxAxes :
            /\ stored[t][axis][2] = pc[t][2]
            /\ stored[t][axis][1] = 2 * pc[t][1] - Incoming(t, axis) * pc[t][2]
  /\ \A w \in Warps : iter[w] = 0 /\ nf_of[w] = 0
  /\ counted = Empty
  /\ \A i \in Lanes : int_trampoline[i] = 0
  /\ \A t \in Threads : negative_fluxes[t] = 0 /\ hv[t] = <<1, 1, 1, 1>>

\* A thread of the time-dependent kernel without fixup has stored a negative
\* outgoing flux on the time axis.
StoredNegative ==
  /\ cell.vdelt # 0
  /\ \E t \in Threads :
       stored[t] # NoValue /\ stored[t][4][1] < 0 /\ \E w \in ActiveWarps : rcell[w] > 0

\* --------------------------------------------------------- time flux frame
\* The grid points invocation u has processed so far.
Visited(u) == { trail[u][i] : i \in 1 .. Len(trail[u]) }

\* C22: an invocation of a time-dependent kernel has read time_flux_in and
\* written time_flux_out exactly once for every cell it has visited and every
\* angle of its lanes, whether or not the cell is on an outflow boundary, and
\* for nothing else; an invocation of a time-independent kernel has read no
\* entry of time_flux_in and written no entry of time_flux_out.
TimeFluxFrame ==
  \A u \in Units :
    Holds(u) =>
      /\ \A k \in DOMAIN time_flux :
            k[1] = u => cfg[u].td /\ k[3] \in Visited(u) /\ k[4] \in AnglesOf(cfg[u])
      /\ cfg[u].td =>
            \A lp \in Visited(u), a \in AnglesOf(cfg[u]), dir \in {"in", "out"} :
              /\ <<u, dir, lp, a>> \in DOMAIN time_flux
              /\ time_flux[<<u, dir, lp, a>>] = 1

\* A time-dependent invocation with two angles per lane has swept a chunk of
\* eight cells, one of them on no outflow boundary.
TimeFluxWritten ==
  \E u \in Units :
    /\ upc[u] = "release"
    /\ cfg[u].td /\ cfg[u].thr = 2
    /\ Len(trail[u]) = 8
    /\ \E lp \in Visited(u) :
         /\ \A k \in DOMAIN ghost : k[1] = u => k[4] # lp
         /\ \A a \in AnglesOf(cfg[u]) : <<u, "out", lp, a>> \in DOMAIN time_flux

\* ------------------------------------------------------------- cyclic scan
\* C23: every atomicDec of the acquisition of a unit whose %smid is id is the
\* k-th of its pass through the for loop, k at most MAX_CTA, and addresses
\* slot (id mod MAX_CTA + k - 1) mod MAX_CTA, so a pass starts at id mod
\* MAX_CTA and probes the slots in cyclic order, each at most once and, when
\* the pass is complete, each exactly once; a slot index the unit takes is
\* the one just probed, lies in 0 .. MAX_CTA - 1 and held the value 1
\* (available) when the atomicDec read it.
CyclicScan ==
  [][\A u \in Units :
       (upc[u] = "scan" /\ (probes'[u] # probes[u] \/ upc'[u] = "run")) =>
         LET seq == IF upc'[u] = "run"
                      THEN Append(IF scan[u] = 0 THEN << >> ELSE probes[u], cta_chunk'[u])
                      ELSE probes'[u]
             k == Len(seq)
         IN /\ k \in 1 .. MAX_CTA
            /\ seq[k] = ((smid[u] % MAX_CTA) + k - 1) % MAX_CTA
            /\ k > 1 => SubSeq(seq, 1, k - 1) = probes[u]
            /\ k = scan[u] + 1
            /\ \A i, j \in 1 .. k : i # j => seq[i] # seq[j]
            /\ k = MAX_CTA => { seq[i] : i \in 1 .. k } = Slots
            /\ cta_chunk'[u] # cta_chunk[u] =>
                 /\ cta_chunk'[u] = seq[k]
                 /\ cta_chunk'[u] \in Slots
                 /\ available_chunks[cta_chunk'[u]] = 1]_vars

\* A unit whose %smid is above MAX_CTA has made a whole pass without finding
\* a slot, and a unit holds a slot other than slot 0.
ScannedAllSlots ==
  /\ \E u \in Units : upc[u] = "scan" /\ smid[u] >= MAX_CTA /\ Len(probes[u]) = MAX_CTA
  /\ \E u \in Units : Holds(u) /\ cta_chunk[u] # 0

\* ------------------------------------------------------- designated adder
\* Every warp of the CTA is past the reductions of cell c.
CellDone(c) == \A w \in ActiveWarps : rcell[w] > c

\* The scalar flux of a cell receives at most one atomicAdd, and exactly
\* one once every warp is past the cell.
SingleScalarAdd ==
  \A c \in Cells : flux_adds[c] <= 1 /\ (CellDone(c) => flux_adds[c] = 1)

\* C24: for every cell, the scalar flux and every moment l >= 1 of the
\* kernel receive exactly one atomicAdd from the CTA, whatever the number of
\* warps: never more than one, and one once every warp is past the cell.
SingleAdder ==
  /\ SingleScalarAdd
  /\ \A c \in Cells : \A l \in 1 .. (MaxMoments - 1) :
       /\ <<c, l>> \in DOMAIN fluxm_adds => fluxm_adds[<<c, l>>] <= 1
       /\ (CellDone(c) /\ l < kernel.num_moments) =>
            (<<c, l>> \in DOMAIN fluxm_adds /\ fluxm_adds[<<c, l>>] = 1)

\* ------------------------------------------------ coefficient consistency
\* C25: when a thread has formed its total for moment l, each weighted flux
\* psi[ang] in it has been multiplied with the entry of device_ec for that
\* thread's angle ang, the entry the source construction uses for the same
\* thread and angle: the index agrees, and so does the total.
CoefficientConsistency ==
  \A w \in ActiveWarps :
    rpc[w] = "bar_mom" =>
      \A laneid \in ActiveLanes(w) :
        LET t == Tid(w, laneid)
        IN /\ \A ang \in ThrAngles :
                MomentOffset(rl[w]) + ang = SourceIndex(t, ang, rl[w])
           /\ total[t] =
                SumOver([ang \in ThrAngles |->
                           device_ec(SourceIndex(t, ang, rl[w])) * PsiOf(t, ang)],
                        ThrAngles)

\* ------------------------------------------------- uniform fixup control
\* C26: in the fixup loop of a cell the lanes of a warp never disagree on
\* leaving the loop, two warps that have left the loop of the same cell have
\* made the same number of passes, and no warp waits at a barrier while
\* another warp of the CTA has ended or split up.
UniformFixupControl ==
  /\ \A w \in ActiveWarps : rpc[w] # "diverged"
  /\ \A w1, w2 \in ActiveWarps :
       (rcell[w1] = rcell[w2] /\ LoopDone(w1) /\ LoopDone(w2)) => iter[w1] = iter[w2]
  /\ ~ Hung

\* -------------------------------------------------------- denominator clamp
\* Warp w recomputes pc in this step.
Recomputes(w) == rpc[w] = "cread" /\ rpc'[w] = "count"

\* C27: when the fixup recomputes pc of an angle, a numerator that is not
\* positive or a denominator below the tolerance gives pc = 0; otherwise pc
\* is the numerator over a denominator that is at least the tolerance; in
\* both cases the new pc is a number that is not negative.
DenominatorClamp ==
  [][\A w \in ActiveWarps :
       Recomputes(w) =>
         \A t \in ThreadsOf(w) :
           LET num2 == RecomputeNum(t, hv[t])
               den == RecomputeSum(t, hv[t])
           IN /\ (num2 <= 0 \/ den < 1) => pc'[t] = <<0, 1>>
              /\ (num2 > 0 /\ den >= 1) => pc'[t] = <<num2, 2 * den>>
              /\ pc'[t][2] > 0
              /\ pc'[t][1] >= 0]_vars

\* Warps have just recomputed pc: for one angle the numerator was positive
\* and the denominator 0, for another the numerator was negative, and for a
\* third pc was divided.
ClampedBothWays ==
  LET fresh == UNION { ThreadsOf(w) : w \in {v \in ActiveWarps : rpc[v] = "count" /\ iter[v] = 1} }
  IN /\ \E t \in fresh :
          pc[t] = <<0, 1>> /\ RecomputeNum(t, hv[t]) > 0 /\ RecomputeSum(t, hv[t]) = 0
     /\ \E t \in fresh : pc[t] = <<0, 1>> /\ RecomputeNum(t, hv[t]) < 0
     /\ \E t \in fresh : pc[t][1] > 0 /\ pc[t][2] > 1

\* ------------------------------------------------------ use after release
\* The cells of the CTA model are a column along y (x_range = z_range = 1):
\* cell c is the one at y = c.

\* Lines 283-316: in the body of a cell with y > 0 the lanes of warp w read
\* yflux_pencils[cta_chunk][x][...] (kernels with fixup: before the loop).
PencilRead(w) ==
  /\ rcell[w] > 0
  /\ \/ rpc[w] = "count" /\ iter[w] = 0 /\ rpc'[w] = "bar_count"
     \/ rpc[w] = "sum" /\ ~ kernel.fixup /\ rpc'[w] = "bar_sum"

\* Lines 485-496: in the body of a cell with y < y_range - 1 the lanes of warp
\* w write yflux_pencils[cta_chunk][x][...] (kernels with fixup: when they
\* leave the loop).
PencilWrite(w) ==
  /\ rcell[w] < CtaCells - 1
  /\ \/ rpc[w] = "cread" /\ rpc'[w] = "sum"
     \/ rpc[w] = "sum" /\ ~ kernel.fixup /\ rpc'[w] = "bar_sum"

\* Line 575: the lanes of warp w have executed the atomicInc of the release.
ReleaseStarted(w) == rpc[w] = "end"

\* C28: no warp reads or writes the scratch pencil of the CTA's slot in a
\* step taken when some warp of the CTA has already executed the release.
NoUseAfterRelease ==
  [][\A w \in ActiveWarps :
       (PencilRead(w) \/ PencilWrite(w)) => \A v \in ActiveWarps : ~ ReleaseStarted(v)]_vars

\* ------------------------------------------------------- staging of sums
\* The partial sum a whole warp stages for the scalar flux of a cell.
WarpTotal(w) == SumOver([laneid \in Lanes |-> OwnTotal(Tid(w, laneid))], Lanes)

\* C29: when warp 0 is about to read the staging array of a reduction, in
\* whatever order the warps ran, every entry still holds what the warp of
\* that index staged for the same cell and moment before the barrier warp 0
\* has just passed: the partial sum of the warp for the scalar flux, the
\* total of its lane 0 for a moment.
StagingRaceFree ==
  /\ rpc[0] = "sfinal" =>
       \A w \in ActiveWarps : double_trampoline[w] = WarpTotal(w)
  /\ rpc[0] = "mfinal" =>
       \A w \in ActiveWarps : double_trampoline[w] = OwnMoment(Tid(w, 0), rl[0])

\* ------------------------------------------- one CTA: acquisition of a slot
\* The CTA is invocation 1 of the pool model: Probe(1) is one iteration of
\* the for loop its designated lane runs, and cta_chunk[1] the value of
\* `chunk` that lane holds when the while loop ends.

\* (mutation of AfterAcquire: no barrier between the acquisition and the read
\* of int_trampoline[0])
AfterAcquireNoBarrier == "chunk"

\* Lines 203, 653: the __syncthreads() that follows the acquisition.
AfterAcquire == "bar_acq"

\* Lines 186-200: warp 0, whose lane 0 passes the test (warpid == 0) &&
\* (laneid == 0), runs one iteration of the for loop.
AcquireProbe == rpc[0] = "acquire" /\ Probe(1)

\* Lines 201, 651: int_trampoline[0] = chunk, by lane 0 of warp 0.
AcquireStore ==
  /\ rpc[0] = "acquire"
  /\ upc[1] = "run"
  /\ int_trampoline' = [int_trampoline EXCEPT ![0] = cta_chunk[1]]
  /\ rpc' = [rpc EXCEPT ![0] = AfterAcquire]
  /\ UNCHANGED <<kernel, rcell, rl, iter, negative_fluxes, old_negative_fluxes, nf_of,
                 counted, sumVars, otherVars>>

\* Line 186: no lane of another warp passes the test.
AcquireSkip(w) ==
  /\ w # 0
  /\ rpc[w] = "acquire"
  /\ upc[1] # "idle"
  /\ rpc' = [rpc EXCEPT ![w] = AfterAcquire]
  /\ UNCHANGED <<kernel, rcell, rl, fixVars, sumVars, otherVars>>

\* Lines 204, 654: const int cta_chunk = int_trampoline[0], every lane.
ChunkRead(w) ==
  /\ rpc[w] = "chunk"
  /\ lane_chunk' = [lane_chunk EXCEPT ![w] = int_trampoline[0]]
  /\ rpc' = [rpc EXCEPT ![w] = "bar_chunk"]
  /\ UNCHANGED <<kernel, rcell, rl, fixVars, sumVars, poolVars, sweepVars, addVars,
                 fixupVars, hostVars>>

AcquireKernels == {k \in Kernels(BOOLEAN) : k.thr = 1 /\ k.corner = 0 /\ k.seed = 0
                                            /\ k.num_moments = 1}

\* The angles of the acquisition model: one that needs no correction and one
\* that needs the fixup.
AcquireProfiles == {QuietProfile, [psi |-> 0, in |-> <<9, 16, 10, 0>>, dinv |-> 0]}

\* A CTA of one or two warps is about to be launched while other invocations
\* hold some of the slots, but not all of them.
InitAcquire ==
  /\ PoolStart(FixupDims)
  /\ HostIdle
  /\ available_chunks \in {f \in [Slots -> {0, 1}] : \E s \in Slots : f[s] = 1}
  /\ AddIdle
  /\ kernel \in AcquireKernels
  /\ rpc = [w \in Warps |-> IF w \in ActiveWarps THEN "acquire" ELSE "none"]
  /\ rcell = [w \in Warps |-> 0]
  /\ rl = [w \in Warps |-> 0]
  /\ iter = [w \in Warps |-> 0]
  /\ negative_fluxes = [t \in Threads |-> 0]
  /\ old_negative_fluxes = [t \in Threads |-> 0]
  /\ nf_of = [w \in Warps |-> 0]
  /\ counted = Empty
  /\ total = [t \in Threads |-> 0]
  /\ int_trampoline = [i \in Lanes |-> 0]
  /\ lane_chunk = [w \in Warps |-> -1]
  /\ double_trampoline = [i \in Lanes |-> 0]
  /\ flux_sum = [c \in Cells |-> 0]
  /\ flux_adds = [c \in Cells |-> 0]
  /\ fluxm_sum = Empty
  /\ fluxm_adds = Empty
  /\ cell \in {c \in CellInputs : c.t_xs = 4}
  /\ \E first \in [ActiveWarps -> AcquireProfiles] :
       profile = [t \in Threads |->
                    IF t >= blockDim THEN NoProfile
                    ELSE IF t % WarpSize = 0 THEN first[t \div WarpSize] ELSE QuietProfile]
  /\ pc = [t \in Threads |-> <<0, 1>>]
  /\ hv = [t \in Threads |-> <<1, 1, 1, 1>>]
  /\ stored = [t \in Threads |-> NoValue]

NextAcquire ==
  \/ Launch(1, PoolCfgs, SMs, 1)
  \/ AcquireProbe
  \/ AcquireStore
  \/ SyncThreads
  \/ \E w \in Warps :
       \/ AcquireSkip(w) \/ ChunkRead(w)
       \/ FixupCount(w) \/ FixStage(w) \/ FixupRead(w) \/ (kernel.fixup /\ Sum(w))
       \/ NoFixupSum(w) \/ SumStage(w) \/ SumFinal(w)

SpecAcquire == InitAcquire /\ [][NextAcquire]_vars

\* Warp w is past the two barriers that follow the acquisition.
PastBroadcast(w) == rpc[w] \notin {"none", "acquire", "bar_acq", "chunk", "bar_chunk"}

\* C30: the only step of an invocation that takes a slot is a probe of the
\* designated lane that finds the slot available, and there is one such
\* step; past the two barriers after the acquisition the lanes of every warp
\* hold the index of that slot as their cta_chunk, whatever has been written
\* to int_trampoline since.
OneSlotPerInvocation ==
  /\ [](\A w \in ActiveWarps :
          PastBroadcast(w) => lane_chunk[w] \in Slots /\ lane_chunk[w] = cta_chunk[1])
  /\ [][\A s \in Slots :
          available_chunks'[s] # available_chunks[s] =>
            /\ rpc[0] = "acquire" /\ cta_chunk[1] = -1
            /\ available_chunks[s] = 1 /\ cta_chunk'[1] = s
            /\ \A r \in Slots \ {s} : available_chunks'[r] = available_chunks[r]]_vars

\* Both warps of a kernel with fixup hold slot 1, taken while another
\* invocation held slot 0, and warp 0 has since zeroed the entry of
\* int_trampoline the index was passed through.
SlotBroadcast ==
  /\ kernel.fixup
  /\ blockDim = 2 * WarpSize
  /\ \A s \in Slots : available_chunks[s] = 0
  /\ \A w \in ActiveWarps : PastBroadcast(w) /\ lane_chunk[w] = 1
  /\ rpc[0] = "bar_count" /\ int_trampoline[0] = 0
====
